---- MODULE Spec2Model ----
(***************************************************************************)
(* A model of shadowtrace's Braille rendering core and of the terminal     *)
(* interface's App:                                                        *)
(*   - BrailleCanvas (src/src/ui/braille_art.rs): the dot grid, set,       *)
(*     clear and the conversion to text;                                   *)
(*   - draw_line (src/src/ui/widgets/braille_chart.rs and                  *)
(*     sparkline_braille.rs): the Bresenham loop, one iteration per step;  *)
(*   - BrailleChart::draw_dataset (braille_chart.rs): the coordinate       *)
(*     mapping and the polyline, one data point per step; and render from  *)
(*     the canvas to the buffer, for the worked example of the             *)
(*     specification;                                                      *)
(*   - BrailleAnimator (braille_art.rs): new, update and the five          *)
(*     animations;                                                         *)
(*   - SparklineBraille::render (sparkline_braille.rs), one loop iteration *)
(*     per step;                                                           *)
(*   - AnimatedTextState and ScannerTextState (animated_text.rs): update   *)
(*     against a monotonic clock, and the highlight of ScannerText::render;*)
(*   - BrailleChart::render_axes (braille_chart.rs): the tick labels, one  *)
(*     label per step;                                                     *)
(*   - App (src/src/ui/app.rs) in the loop of Tui::run (src/src/ui/tui.rs):*)
(*     the key handlers, tick, and the worker threads of the analysis.     *)
(*                                                                         *)
(* f64 values are modelled as exact fractions (a numerator over a          *)
(* denominator), infinities or NaN; the inputs are small integers, on      *)
(* which the IEEE computation and the exact one truncate to the same       *)
(* integer.                                                                *)
(* In draw_line and draw_dataset usize and isize never overflow within the *)
(* bounds used; where they can (the animators, the sparkline, the scanner) *)
(* a build that checks overflow panics and one that does not wraps.        *)
(***************************************************************************)
EXTENDS Integers, Sequences, FiniteSets

VARIABLES
    width,      \* BrailleCanvas.width
    height,     \* BrailleCanvas.height
    data,       \* BrailleCanvas.data : data[x][y], x in 0..width-1, y in 0..height-1
    op,         \* the last call made on the canvas, with its arguments
    calls,      \* number of calls made on the canvas since new
    text,       \* the last string returned by to_string (a sequence of code points)
    line,       \* draw_line's locals while a line is being drawn
    path,       \* the points draw_line has visited, in order
    chart,      \* the chart's axis bounds and draw_dataset's locals
    seg,        \* the draw_line call of draw_dataset's last iteration, if any
    anim,       \* two BrailleAnimators of one program
    ats,        \* an AnimatedTextState and the clock it reads
    scan,       \* a ScannerTextState and the clock it reads
    spark,      \* SparklineBraille::render's inputs and locals
    axes,       \* BrailleChart::render_axes' areas, labels and the labels it placed
    app         \* the App of the terminal interface, its channel and its worker threads

canvasVars == <<width, height, data>>
apiVars    == <<op, calls, text>>
lineVars   == <<line, path>>
chartVars  == <<chart, seg>>
widgetVars == <<anim, ats, scan, spark>>
hostVars   == <<axes, app>>
vars       == <<width, height, data, op, calls, text, line, path, chart, seg,
               anim, ats, scan, spark, axes, app>>

(***************************************************************************)
(* Bounds of the model.                                                    *)
(***************************************************************************)
MaxW     == 2   \* canvas widths 0..MaxW in SpecCanvas
MaxH     == 4   \* canvas heights 0..MaxH in SpecCanvas
MaxCalls == 3   \* calls made on one canvas in SpecCanvas
MaxLineCellsW == 5   \* SpecLine: the canvas is 2 * (1..MaxLineCellsW) dots wide
MaxLineCellsH == 1   \* SpecLine: the canvas is 4 * (1..MaxLineCellsH) dots high
Over     == 1   \* SpecLine: endpoints lie up to Over dots past the canvas edge
MaxVal   == 2   \* SpecChart: data values are -1..MaxVal, axis maxima 0..MaxVal
MaxPts   == 3   \* SpecChart: points of the dataset
MaxGraphCells == 1   \* SpecChart: the graph area is a square of 1..MaxGraphCells cells
MaxAnimDim == 3   \* SpecAnim: the animators' canvases are 0..MaxAnimDim dots wide and high
MaxFrame == 2   \* SpecAnim, SpecText: frame counters up to MaxFrame
MaxBack  == 1   \* counters and positions from usize::MAX - (MaxBack - 1), written -MaxBack
MaxSparkCells == 2   \* SpecSpark: chart_area is 0..MaxSparkCells cells wide (and 0 or 1 high)
MaxSparkLen == 3   \* SpecSpark: values in the data slice
MaxSparkVal == 1   \* SpecSpark: data values and limits are -1..MaxSparkVal
MaxInterval == 2   \* SpecText, SpecScanner: update_interval is 0..MaxInterval ticks
MaxDt   == 3   \* SpecText, SpecScanner: the clock advances 0..MaxDt ticks between calls
MaxTime == 5   \* SpecText, SpecScanner: the clock runs up to MaxTime
MaxScanW == 10   \* SpecScanner: inner widths are 0..MaxScanW
MaxStart == 1   \* SpecAnim: the second animator is created MaxStart ticks after the first
MaxAxisW == 9   \* SpecAxes: chart areas 4..MaxAxisW cells wide
MaxAxisH == 7   \* SpecAxes: chart areas 4..MaxAxisH cells high
MaxLabels == 3   \* SpecAxes: 0..MaxLabels labels on an axis
MaxLabelLen == 2   \* SpecAxes: labels of 1..MaxLabelLen characters
MaxLineLen == 5   \* SpecScanner: the longest line of text, in bytes
MaxRequests == 2   \* SpecApp: analyses started in one run
MaxTicks == 2   \* SpecApp: ticks made in one run

(***************************************************************************)
(* Program constants.                                                      *)
(***************************************************************************)
BrailleBase == 10240   \* 0x2800, `char_code`
Placeholder == 10294   \* 0x2836, the glyph to_string pushes
Newline     == 10      \* '\n'

None == [kind |-> "none"]

Min(a, b) == IF a < b THEN a ELSE b
Max(a, b) == IF a > b THEN a ELSE b
Abs(a)    == IF a < 0 THEN -a ELSE a
\* a.saturating_sub(b) on unsigned integers
SaturatingSub(a, b) == IF a >= b THEN a - b ELSE 0

(***************************************************************************)
(* BrailleCanvas                                                           *)
(***************************************************************************)
\* vec![vec![false; height]; width]
CanvasNew(w, h) == [x \in 0..(w - 1) |-> [y \in 0..(h - 1) |-> FALSE]]

\* A plausible slip: the coordinates are clamped onto the grid, not clipped.
CanvasSetClamped(d, w, h, x, y, v) ==
    IF w > 0 /\ h > 0
    THEN [d EXCEPT ![Min(x, w - 1)][Min(y, h - 1)] = v]
    ELSE d

\* fn set: the write happens only inside the bounds.
CanvasSet(d, w, h, x, y, v) ==
    IF x < w /\ y < h
    THEN [d EXCEPT ![x][y] = v]
    ELSE d

\* fn clear: every stored dot becomes false.
CanvasClear(d, w, h) == [x \in 0..(w - 1) |-> [y \in 0..(h - 1) |-> FALSE]]

\* n copies of the code point c
Repeat(c, n) == [i \in 1..n |-> c]

RECURSIVE Rows(_, _)
\* n rows, each `row` followed by a newline
Rows(row, n) == IF n = 0 THEN <<>> ELSE row \o <<Newline>> \o Rows(row, n - 1)

\* fn to_string: height / 4 rows of width / 2 glyphs; the glyph pushed does
\* not depend on the dots.
CanvasToString(d, w, h) == Rows(Repeat(Placeholder, w \div 2), h \div 4)

RECURSIVE Lines(_)
\* str::lines: the pieces between newlines; a final newline ends the last line.
Lines(s) ==
    IF s = <<>> THEN <<>>
    ELSE LET nl == { i \in 1..Len(s) : s[i] = Newline }
         IN  IF nl = {} THEN <<s>>
             ELSE LET k == CHOOSE i \in nl : \A j \in nl : i <= j
                  IN  <<SubSeq(s, 1, k - 1)>> \o Lines(SubSeq(s, k + 1, Len(s)))

Lit(d, w, h) == { p \in (0..(w - 1)) \X (0..(h - 1)) : d[p[1]][p[2]] }

(***************************************************************************)
(* SpecCanvas: a canvas of any size and the calls made on it.              *)
(***************************************************************************)
IdleLine  == None
IdleChart == None

InitCanvas ==
    /\ axes = None /\ app = None
    /\ width \in 0..MaxW
    /\ height \in 0..MaxH
    /\ data = CanvasNew(width, height)
    /\ op = [kind |-> "new", w |-> width, h |-> height]
    /\ calls = 0
    /\ text = <<>>
    /\ line = IdleLine
    /\ path = <<>>
    /\ chart = IdleChart
    /\ seg = None
    /\ anim = None /\ ats = None /\ scan = None /\ spark = None

Set(x, y, v) ==
    /\ calls < MaxCalls
    /\ data' = CanvasSet(data, width, height, x, y, v)
    /\ op' = [kind |-> "set", x |-> x, y |-> y, v |-> v]
    /\ calls' = calls + 1
    /\ UNCHANGED <<axes, app, width, height, text, line, path, chart, seg, anim, ats, scan, spark>>

Clear ==
    /\ calls < MaxCalls
    /\ data' = CanvasClear(data, width, height)
    /\ op' = [kind |-> "clear"]
    /\ calls' = calls + 1
    /\ UNCHANGED <<axes, app, width, height, text, line, path, chart, seg, anim, ats, scan, spark>>

ToString ==
    /\ calls < MaxCalls
    /\ text' = CanvasToString(data, width, height)
    /\ op' = [kind |-> "to_string"]
    /\ calls' = calls + 1
    /\ UNCHANGED <<axes, app, width, height, data, line, path, chart, seg, anim, ats, scan, spark>>

NextCanvas ==
    \/ \E x \in 0..(MaxW + 1), y \in 0..(MaxH + 1), v \in BOOLEAN : Set(x, y, v)
    \/ Clear
    \/ ToString

SpecCanvas == InitCanvas /\ [][NextCanvas]_vars

(***************************************************************************)
(* The text geometry and the dot encoding the specification asks for.      *)
(***************************************************************************)
CeilDiv(a, b) == (a + b - 1) \div b

\* The canonical Braille dot of the pixel (dx, dy) of a 2x4 block: dots
\* 1,2,3,7 are the left column, dots 4,5,6,8 the right one.
DotBit(dx, dy) ==
    CASE dx = 0 /\ dy = 0 -> 1
      [] dx = 0 /\ dy = 1 -> 2
      [] dx = 0 /\ dy = 2 -> 4
      [] dx = 0 /\ dy = 3 -> 64
      [] dx = 1 /\ dy = 0 -> 8
      [] dx = 1 /\ dy = 1 -> 16
      [] dx = 1 /\ dy = 2 -> 32
      [] dx = 1 /\ dy = 3 -> 128

\* The bit of pixel (dx, dy) of block (cx, cy): set when the pixel is on the
\* grid and lit.
BlockBit(d, w, h, cx, cy, dx, dy) ==
    IF 2 * cx + dx < w /\ 4 * cy + dy < h /\ d[2 * cx + dx][4 * cy + dy]
    THEN DotBit(dx, dy)
    ELSE 0

BlockMask(d, w, h, cx, cy) ==
      BlockBit(d, w, h, cx, cy, 0, 0) + BlockBit(d, w, h, cx, cy, 0, 1)
    + BlockBit(d, w, h, cx, cy, 0, 2) + BlockBit(d, w, h, cx, cy, 0, 3)
    + BlockBit(d, w, h, cx, cy, 1, 0) + BlockBit(d, w, h, cx, cy, 1, 1)
    + BlockBit(d, w, h, cx, cy, 1, 2) + BlockBit(d, w, h, cx, cy, 1, 3)

\* C1: to_string returns exactly ceil(H/4) lines, each of exactly ceil(W/2)
\* characters, whatever the width, the height and the lit pixels.
C1_TextGeometry ==
    op.kind = "to_string" =>
        LET ls == Lines(text)
        IN  /\ Len(ls) = CeilDiv(height, 4)
            /\ \A i \in 1..Len(ls) : Len(ls[i]) = CeilDiv(width, 2)

\* C2: the character emitted for the block at cell (cx, cy) is the code
\* point 0x2800 | mask, mask holding exactly the dot bits of the block's lit
\* pixels; with only pixel (0,0) lit the first character is 0x2800 | DOT1.
C2_GlyphIsMask ==
    op.kind = "to_string" =>
        LET ls == Lines(text)
        IN  \A cy \in 0..(Len(ls) - 1) : \A cx \in 0..(Len(ls[cy + 1]) - 1) :
                ls[cy + 1][cx + 1] = BrailleBase + BlockMask(data, width, height, cx, cy)

\* C3: a fresh canvas and a cleared one have every pixel unlit, and the text
\* of an all-unlit canvas consists of U+2800 characters only.
C3_BlankCanvasBlankText ==
    /\ op.kind \in {"new", "clear"} => Lit(data, width, height) = {}
    /\ (op.kind = "to_string" /\ Lit(data, width, height) = {}) =>
           \A i \in 1..Len(text) : text[i] \in {BrailleBase, Newline}

\* C4: set outside the grid changes no stored pixel; set inside it changes
\* pixel (x, y) only, to the value given; no call changes the dimensions, and
\* the grid holds values exactly for x in [0,W), y in [0,H).
C4_SetFrame ==
    /\ [](/\ DOMAIN data = 0..(width - 1)
          /\ \A x \in DOMAIN data : DOMAIN data[x] = 0..(height - 1))
    /\ [][/\ width' = width
          /\ height' = height
          /\ (op'.kind = "set" /\ calls' = calls + 1) =>
                /\ (op'.x >= width \/ op'.y >= height) => data' = data
                /\ (op'.x < width /\ op'.y < height) =>
                      /\ data'[op'.x][op'.y] = op'.v
                      /\ \A x \in 0..(width - 1), y \in 0..(height - 1) :
                            (x # op'.x \/ y # op'.y) => data'[x][y] = data[x][y]
         ]_vars

\* An out-of-range set was made on a canvas holding a lit pixel.
C4_Witness ==
    /\ op.kind = "set"
    /\ (op.x >= width \/ op.y >= height)
    /\ op.v = FALSE
    /\ Lit(data, width, height) # {}

(***************************************************************************)
(* draw_line (BrailleChart::draw_line and SparklineBraille::draw_line, the *)
(* same code twice): Bresenham's loop.                                     *)
(***************************************************************************)
\* A plausible slip: the x step is always +1, whatever the side x1 lies on.
LineLocalsRightward(x0, y0, x1, y1) ==
    [kind |-> "loop",
     from |-> <<x0, y0>>,
     x0 |-> x0, y0 |-> y0, x1 |-> x1, y1 |-> y1,
     dx |-> Abs(x1 - x0),
     dy |-> -Abs(y1 - y0),
     sx |-> 1,
     sy |-> IF y0 < y1 THEN 1 ELSE -1,
     err |-> Abs(x1 - x0) - Abs(y1 - y0)]

\* The locals before the loop; `from` keeps the arguments x0, y0, which the
\* loop's x0, y0 shadow.
LineLocals(x0, y0, x1, y1) ==
    [kind |-> "loop",
     from |-> <<x0, y0>>,
     x0 |-> x0, y0 |-> y0, x1 |-> x1, y1 |-> y1,
     dx |-> Abs(x1 - x0),
     dy |-> -Abs(y1 - y0),
     sx |-> IF x0 < x1 THEN 1 ELSE -1,
     sy |-> IF y0 < y1 THEN 1 ELSE -1,
     err |-> Abs(x1 - x0) - Abs(y1 - y0)]

\* A plausible slip: the end test comes before the write, so the last point
\* is never written.
LinePlotSkipEnd(d, w, h, l) ==
    IF l.x0 = l.x1 /\ l.y0 = l.y1 THEN d
    ELSE IF l.x0 >= 0 /\ l.x0 < w /\ l.y0 >= 0 /\ l.y0 < h
         THEN CanvasSet(d, w, h, l.x0, l.y0, TRUE)
         ELSE d

\* A plausible slip: the coordinates are passed in the wrong order.
LinePlotSwapped(d, w, h, l) ==
    IF l.x0 >= 0 /\ l.x0 < w /\ l.y0 >= 0 /\ l.y0 < h
    THEN CanvasSet(d, w, h, l.y0, l.x0, TRUE)
    ELSE d

\* A plausible slip: an off-canvas point is clamped onto the edge.
LinePlotClamped(d, w, h, l) ==
    CanvasSet(d, w, h, Max(0, Min(l.x0, w - 1)), Max(0, Min(l.y0, h - 1)), TRUE)

\* The write at the head of the loop body: only inside the canvas.
LinePlot(d, w, h, l) ==
    IF l.x0 >= 0 /\ l.x0 < w /\ l.y0 >= 0 /\ l.y0 < h
    THEN CanvasSet(d, w, h, l.x0, l.y0, TRUE)
    ELSE d

\* The rest of the loop body: the three breaks and the two steps.  A break
\* after the x step leaves x0 advanced.
LineAdvance(l) ==
    IF l.x0 = l.x1 /\ l.y0 = l.y1 THEN [l EXCEPT !.kind = "done"]
    ELSE
        LET e2 == 2 * l.err
            stepX == e2 >= l.dy
            stepY == e2 <= l.dx
        IN  IF stepX /\ l.x0 = l.x1 THEN [l EXCEPT !.kind = "done"]
            ELSE
                LET l1 == IF stepX
                          THEN [l EXCEPT !.err = l.err + l.dy, !.x0 = l.x0 + l.sx]
                          ELSE l
                IN  IF stepY /\ l1.y0 = l1.y1 THEN [l1 EXCEPT !.kind = "done"]
                    ELSE IF stepY
                         THEN [l1 EXCEPT !.err = l1.err + l1.dx, !.y0 = l1.y0 + l1.sy]
                         ELSE l1

RECURSIVE LineLoop(_, _, _, _)
\* The whole loop, from the locals l.
LineLoop(d, w, h, l) ==
    IF l.kind = "done" THEN d
    ELSE LineLoop(LinePlot(d, w, h, l), w, h, LineAdvance(l))

\* fn draw_line as one call.
DrawLine(d, w, h, x0, y0, x1, y1) == LineLoop(d, w, h, LineLocals(x0, y0, x1, y1))

(***************************************************************************)
(* SpecLine: one line drawn on a blank canvas of the size a widget makes   *)
(* (2 dots per cell across, 4 down), one loop iteration per step.          *)
(***************************************************************************)
InitLine ==
    /\ axes = None /\ app = None
    /\ \E cw \in 1..MaxLineCellsW, chh \in 1..MaxLineCellsH :
          /\ width = 2 * cw
          /\ height = 4 * chh
    /\ data = CanvasNew(width, height)
    /\ op = [kind |-> "new", w |-> width, h |-> height]
    /\ calls = 0
    /\ text = <<>>
    /\ line = IdleLine
    /\ path = <<>>
    /\ chart = IdleChart
    /\ seg = None
    /\ anim = None /\ ats = None /\ scan = None /\ spark = None

\* The call, with any endpoints up to Over dots past the canvas edge (the
\* parameters are usize: never negative), and the locals' initialisation.
LineBegin ==
    /\ line.kind = "none"
    /\ \E x0 \in 0..(width - 1 + Over), y0 \in 0..(height - 1 + Over),
          x1 \in 0..(width - 1 + Over), y1 \in 0..(height - 1 + Over) :
          line' = LineLocals(x0, y0, x1, y1)
    /\ UNCHANGED <<axes, app, width, height, data, op, calls, text, path, chart, seg, anim, ats, scan, spark>>

\* One iteration of the loop.
LineIter ==
    /\ line.kind = "loop"
    /\ data' = LinePlot(data, width, height, line)
    /\ path' = Append(path, <<line.x0, line.y0>>)
    /\ line' = LineAdvance(line)
    /\ UNCHANGED <<axes, app, width, height, op, calls, text, chart, seg, anim, ats, scan, spark>>

NextLine ==
    \/ LineBegin
    \/ LineIter

SpecLine == InitLine /\ [][NextLine]_vars

InCanvas(p) == p[1] >= 0 /\ p[1] < width /\ p[2] >= 0 /\ p[2] < height

LineTo == <<line.x1, line.y1>>

PathSet == { path[i] : i \in 1..Len(path) }

\* C5: with both endpoints inside the canvas, draw_line lights both
\* endpoints, the pixels it lights are those of an 8-connected path from the
\* first endpoint to the second, and a zero-length line lights exactly its
\* one pixel.
C5_LineConnected ==
    (line.kind = "done" /\ InCanvas(line.from) /\ InCanvas(LineTo)) =>
        /\ line.from \in Lit(data, width, height)
        /\ LineTo \in Lit(data, width, height)
        /\ Lit(data, width, height) = PathSet
        /\ path[1] = line.from
        /\ path[Len(path)] = LineTo
        /\ \A i \in 1..(Len(path) - 1) :
              /\ Abs(path[i + 1][1] - path[i][1]) <= 1
              /\ Abs(path[i + 1][2] - path[i][2]) <= 1
        /\ line.from = LineTo => Lit(data, width, height) = {line.from}

\* A sloped line between two points inside the canvas has been drawn.
C5_Witness ==
    /\ line.kind = "done"
    /\ InCanvas(line.from) /\ InCanvas(LineTo)
    /\ line.from[1] > LineTo[1] + 1
    /\ line.from[2] < LineTo[2] - 1

\* C6: a line between two points of one row of a blank canvas lights exactly
\* the pixels of that row from the smaller x to the larger x; (0,0)->(9,0)
\* lights (x,0) for x = 0..9 and nothing else.
C6_HorizontalLine ==
    (line.kind = "done" /\ InCanvas(line.from) /\ InCanvas(LineTo)
        /\ line.from[2] = LineTo[2]) =>
        Lit(data, width, height) =
            { <<x, LineTo[2]>> : x \in Min(line.from[1], LineTo[1])..Max(line.from[1], LineTo[1]) }

\* The line (0,0)->(9,0) has been drawn.
C6_Witness ==
    /\ line.kind = "done"
    /\ line.from = <<0, 0>>
    /\ LineTo = <<9, 0>>
    /\ Cardinality(Lit(data, width, height)) = 10

\* The pixels the same call lights on a blank canvas large enough to hold
\* the whole line.
UnclippedLine ==
    LET bw == Max(line.from[1], line.x1) + 1
        bh == Max(line.from[2], line.y1) + 1
    IN  Lit(DrawLine(CanvasNew(bw, bh), bw, bh, line.from[1], line.from[2], line.x1, line.y1),
            bw, bh)

\* C7: with an endpoint outside the canvas the loop still walks to the far
\* endpoint, and the pixels lit are exactly the pixels of the unclipped line
\* that lie inside the canvas.
C7_ClippedLine ==
    (line.kind = "done" /\ ~(InCanvas(line.from) /\ InCanvas(LineTo))) =>
        /\ path[1] = line.from
        /\ path[Len(path)] = LineTo
        /\ Lit(data, width, height) = { p \in UnclippedLine : InCanvas(p) }

\* A line from inside the canvas to a point past its corner has been drawn.
C7_Witness ==
    /\ line.kind = "done"
    /\ InCanvas(line.from)
    /\ LineTo[1] >= width /\ LineTo[2] >= height
    /\ Cardinality(Lit(data, width, height)) >= 2
    /\ Len(path) > Cardinality(Lit(data, width, height))

(***************************************************************************)
(* f64 arithmetic on the values draw_dataset and the sparkline compute.   *)
(* A value is an exact fraction n/d (d > 0), an infinity or NaN.  The      *)
(* operands are integers.  In draw_dataset a data point reaches the        *)
(* division only with x_min <= x <= x_max, so a zero span comes with a     *)
(* zero numerator (0.0 / 0.0 = NaN); in the sparkline height / 0.0 is      *)
(* infinite.                                                               *)
(***************************************************************************)
NaN == [k |-> "nan"]

\* plus infinity (s = 1) and minus infinity (s = -1)
Inf(s) == [k |-> "inf", s |-> s]

\* a / b on two integer-valued f64
FDiv(a, b) ==
    IF b = 0 THEN (IF a = 0 THEN NaN ELSE Inf(IF a > 0 THEN 1 ELSE -1))
    ELSE IF b > 0 THEN [k |-> "fin", n |-> a, d |-> b]
    ELSE [k |-> "fin", n |-> -a, d |-> -b]

\* q * w, w an integer-valued f64 (`width as f64`)
FMul(q, w) ==
    CASE q.k = "nan" -> NaN
      [] q.k = "inf" -> IF w = 0 THEN NaN ELSE Inf(IF w > 0 THEN q.s ELSE -q.s)
      [] q.k = "fin" -> [k |-> "fin", n |-> q.n * w, d |-> q.d]

\* `q as usize`: truncation toward zero; NaN and negative values give 0,
\* plus infinity gives usize::MAX (written -1).
ToUsize(q) ==
    CASE q.k = "nan" -> 0
      [] q.k = "inf" -> IF q.s > 0 THEN -1 ELSE 0
      [] q.k = "fin" -> IF q.n < 0 THEN 0 ELSE q.n \div q.d

(***************************************************************************)
(* BrailleChart::draw_dataset                                              *)
(***************************************************************************)
\* A plausible slip: the axis minimum is not subtracted.
ScaleXFNoMin(x, x_min, x_max, w) == FMul(FDiv(x, x_max - x_min), w)

\* The f64 that scale_x casts: (x - x_min) / (x_max - x_min) * width
ScaleXF(x, x_min, x_max, w) == FMul(FDiv(x - x_min, x_max - x_min), w)

\* The f64 that scale_y casts: (y - y_min) / (y_max - y_min) * height
ScaleYF(y, y_min, y_max, h) == FMul(FDiv(y - y_min, y_max - y_min), h)

\* closure scale_x
ScaleX(x, x_min, x_max, w) == ToUsize(ScaleXF(x, x_min, x_max, w))

\* closure scale_y (the value cast never exceeds height for a kept point)
ScaleY(y, y_min, y_max, h) == h - ToUsize(ScaleYF(y, y_min, y_max, h))

\* A plausible slip: a point outside the bounds is clamped to them instead
\* of being dropped.
DroppedNever(p, xb, yb) == FALSE

\* The test that drops a point: x or y outside the axis bounds.
Dropped(p, xb, yb) == p[1] < xb[1] \/ p[1] > xb[2] \/ p[2] < yb[1] \/ p[2] > yb[2]

\* canvas_x and canvas_y of a kept point
CanvasXY(p, xb, yb, w, h) ==
    <<Min(ScaleX(p[1], xb[1], xb[2], w), w - 1),
      Min(ScaleY(p[2], yb[1], yb[2], h), h - 1)>>

\* A plausible slip: the line is drawn from the last kept point even when a
\* dropped point lies in between (prev is not reset).
PrevAfterDropKept(c) == c.prev

\* prev_x, prev_y after a dropped point
PrevAfterDrop(c) == None

(***************************************************************************)
(* SpecChart: one dataset drawn on the chart's fresh canvas, one data      *)
(* point per step.  chart holds the axis bounds and draw_dataset's locals: *)
(*   n      points read so far                                             *)
(*   pt     the point (x, y) of the last iteration                         *)
(*   prev   (prev_x, prev_y) or None                                       *)
(*   fx, fy the f64 values the last iteration cast to usize, or None       *)
(*   cxy    (canvas_x, canvas_y) of the last iteration, or None            *)
(* seg is the draw_line call the last iteration made (its endpoints), or   *)
(* None when it made none.                                                 *)
(***************************************************************************)
AxisBounds == (0..1) \X (0..MaxVal)

DataPoints == (-1..MaxVal) \X (-1..MaxVal)

InitChart ==
    /\ axes = None /\ app = None
    /\ \E g \in 1..MaxGraphCells :
          /\ width = 2 * g
          /\ height = 4 * g
    /\ data = CanvasNew(width, height)
    /\ op = [kind |-> "new", w |-> width, h |-> height]
    /\ calls = 0
    /\ text = <<>>
    /\ line = IdleLine
    /\ path = <<>>
    /\ \E xb \in AxisBounds, yb \in AxisBounds :
          chart = [kind |-> "loop", xb |-> xb, yb |-> yb, n |-> 0,
                   pt |-> None, prev |-> None,
                   fx |-> None, fy |-> None, cxy |-> None]
    /\ seg = None
    /\ anim = None /\ ats = None /\ scan = None /\ spark = None

\* dataset.data.is_empty(): return
DatasetEmpty ==
    /\ chart.kind = "loop"
    /\ chart.n = 0
    /\ chart' = [chart EXCEPT !.kind = "done"]
    /\ UNCHANGED <<axes, app, width, height, data, op, calls, text, line, path, seg, anim, ats, scan, spark>>

\* One iteration of `for &(x, y) in &dataset.data`.
DatasetPoint ==
    /\ chart.kind = "loop"
    /\ chart.n < MaxPts
    /\ \E p \in DataPoints :
          LET c == [chart EXCEPT !.n = chart.n + 1, !.pt = p]
          IN  IF Dropped(p, chart.xb, chart.yb)
              THEN /\ chart' = [c EXCEPT !.prev = PrevAfterDrop(chart),
                                         !.fx = None, !.fy = None, !.cxy = None]
                   /\ seg' = None
                   /\ UNCHANGED data
              ELSE LET cxy == CanvasXY(p, chart.xb, chart.yb, width, height)
                       dot == CanvasSet(data, width, height, cxy[1], cxy[2], TRUE)
                   IN  /\ chart' = [c EXCEPT
                                      !.prev = cxy,
                                      !.fx = ScaleXF(p[1], chart.xb[1], chart.xb[2], width),
                                      !.fy = ScaleYF(p[2], chart.yb[1], chart.yb[2], height),
                                      !.cxy = cxy]
                       /\ IF chart.prev # None
                          THEN /\ data' = DrawLine(dot, width, height,
                                                   chart.prev[1], chart.prev[2], cxy[1], cxy[2])
                               /\ seg' = [kind |-> "line", from |-> chart.prev, to |-> cxy]
                          ELSE /\ data' = dot
                               /\ seg' = None
    /\ UNCHANGED <<axes, app, width, height, op, calls, text, line, path, anim, ats, scan, spark>>

\* The dataset has no more points.
DatasetEnd ==
    /\ chart.kind = "loop"
    /\ chart.n > 0
    /\ chart' = [chart EXCEPT !.kind = "done"]
    /\ UNCHANGED <<axes, app, width, height, data, op, calls, text, line, path, seg, anim, ats, scan, spark>>

NextChart ==
    \/ DatasetEmpty
    \/ DatasetPoint
    \/ DatasetEnd

SpecChart == InitChart /\ [][NextChart]_vars

\* x or y of the point r lies outside the axis bounds of the chart.
OutOfBounds(r) ==
    \/ r[1] < chart.xb[1] \/ r[1] > chart.xb[2]
    \/ r[2] < chart.yb[1] \/ r[2] > chart.yb[2]

\* Both axes have min < max.
ProperAxes == chart.xb[1] < chart.xb[2] /\ chart.yb[1] < chart.yb[2]

\* The last iteration mapped its point to the canvas.
Mapped == chart # None /\ chart.n > 0 /\ chart.cxy # None

\* (x - x_min) / (x_max - x_min) * canvas_width, truncated
ColumnOf(x) == ((x - chart.xb[1]) * width) \div (chart.xb[2] - chart.xb[1])

\* canvas_height - (y - y_min) / (y_max - y_min) * canvas_height, the
\* product truncated
RowOf(y) == height - ((y - chart.yb[1]) * height) \div (chart.yb[2] - chart.yb[1])

\* C8 as stated: with min < max on both axes, a point inside the bounds is
\* mapped to the column (x - x_min) / (x_max - x_min) * canvas_width and the
\* row canvas_height - (y - y_min) / (y_max - y_min) * canvas_height.
C8_MapAsStated ==
    (Mapped /\ ProperAxes) =>
        /\ chart.cxy[1] = ColumnOf(chart.pt[1])
        /\ chart.cxy[2] = RowOf(chart.pt[2])

\* C8, amended: the column is that value clamped to canvas_width - 1 and the
\* row that value clamped to canvas_height - 1; with x_min = 0, x_max = 10,
\* canvas_width = 100 the value x = 5 maps to column 50 and x = -1 is dropped.
C8_MapClamped ==
    /\ (Mapped /\ ProperAxes) =>
          /\ chart.cxy[1] = Min(ColumnOf(chart.pt[1]), width - 1)
          /\ chart.cxy[2] = Min(RowOf(chart.pt[2]), height - 1)
    /\ CanvasXY(<<5, 0>>, <<0, 10>>, <<0, 10>>, 100, 100)[1] = 50
    /\ Dropped(<<-1, 0>>, <<0, 10>>, <<0, 10>>)

\* A point with x = x_max and y = y_min was mapped, to the last column and
\* the last row, on an axis whose minimum is not 0.
C8_Witness ==
    /\ Mapped /\ ProperAxes
    /\ chart.xb[1] = 1
    /\ chart.pt = <<chart.xb[2], chart.yb[1]>>
    /\ chart.cxy = <<width - 1, height - 1>>

\* C9: a point outside the axis bounds lights no pixel and breaks the
\* polyline: an iteration draws a line only from the point of the iteration
\* before it, and only when both points are inside the bounds; a kept point
\* that starts a new run of the polyline lights its own pixel only.
C9_DroppedBreaksLine ==
    [][chart'.n = chart.n + 1 =>
        /\ chart'.xb = chart.xb /\ chart'.yb = chart.yb
        /\ OutOfBounds(chart'.pt) =>
              /\ data' = data
              /\ seg' = None
              /\ chart'.cxy = None
              /\ chart'.prev = None
        /\ seg' # None =>
              /\ chart.n >= 1
              /\ ~OutOfBounds(chart.pt)
              /\ ~OutOfBounds(chart'.pt)
              /\ seg'.from = chart.cxy
              /\ seg'.to = chart'.cxy
        /\ (~OutOfBounds(chart'.pt) /\ seg' = None) =>
              \A x \in 0..(width - 1), y \in 0..(height - 1) :
                  data'[x][y] = (data[x][y] \/ <<x, y>> = chart'.cxy)
    ]_vars

\* A kept point, a dropped point and a kept point were read: the two kept
\* points are lit, at least two rows apart, and nothing joins them.
C9_Witness ==
    /\ chart # None /\ chart.n = 3
    /\ ProperAxes
    /\ chart.cxy # None
    /\ seg = None
    /\ \E a, b \in Lit(data, width, height) :
          /\ Lit(data, width, height) = {a, b}
          /\ b = chart.cxy
          /\ Abs(a[2] - b[2]) >= 2

\* C10: with a degenerate axis span a minimum span is substituted before the
\* division, so no NaN (or infinite) value is ever cast to a pixel
\* coordinate.
C10_NoNaNCast ==
    Mapped => (chart.fx.k = "fin" /\ chart.fy.k = "fin")

(***************************************************************************)
(* usize and u64 values.  Both are 64 bits wide.  A value near the top of  *)
(* the range is written as the negative integer congruent to it modulo     *)
(* 2^64 (-1 is usize::MAX), a value near the bottom as itself; no value of *)
(* the model lies in between.                                              *)
(***************************************************************************)
\* 2^64 modulo m, for a small m > 0
Pow64Mod(m) ==
    LET a == 65536 % m
        b == (a * a) % m
    IN  (b * b) % m

\* v % m on usize, m > 0
UMod(v, m) == IF v >= 0 THEN v % m ELSE (Pow64Mod(m) + (v % m)) % m

\* a < b on usize
ULt(a, b) ==
    IF (a >= 0) = (b >= 0) THEN a < b ELSE a >= 0

\* v + k leaves the range of usize (k a small natural number)
UAddOverflows(v, k) == v < 0 /\ v + k >= 0

(***************************************************************************)
(* f32 trigonometry.  A sine or cosine is kept in millionths (R), or, when *)
(* its magnitude is below a millionth, in units of 10^-10 (T).  AddCast is *)
(* `(c as f32 + (num / den) as f32 * t) as usize`: with a value in         *)
(* millionths the sum is truncated (a negative sum casts to 0); a tiny     *)
(* positive addend is absorbed by the f32 addition, and a tiny negative    *)
(* one moves the sum to the float below c only when it exceeds half the    *)
(* gap between that float and c.  On canvases up to 8 dots wide and high   *)
(* this gives the coordinates the f32 computation gives.                   *)
(***************************************************************************)
Micro == 1000000

R(v) == [tiny |-> FALSE, v |-> v]
T(v) == [tiny |-> TRUE, v |-> v]

RECURSIVE FloorPow2(_)
\* the largest power of two that is <= c, c >= 1
FloorPow2(c) == IF c < 2 THEN 1 ELSE 2 * FloorPow2(c \div 2)

\* half the distance from c to the f32 below it, in units of 10^-10
HalfGap(c) == IF c = FloorPow2(c) THEN 298 * c ELSE 596 * FloorPow2(c)

AddCast(c, num, den, t) ==
    IF t.tiny
    THEN IF t.v < 0 /\ c >= 1 /\ num * (-t.v) > den * HalfGap(c)
         THEN c - 1
         ELSE c
    ELSE LET n == c * den * Micro + num * t.v
         IN  IF n < 0 THEN 0 ELSE n \div (den * Micro)

\* cos and sin of i * PI / 4, i = 0..7
PulseCos == <<R(1000000), R(707107), T(-437), R(-707107),
              R(-1000000), R(-707107), T(119), R(707107)>>
PulseSin == <<R(0), R(707107), R(1000000), R(707107),
              T(-874), R(-707107), R(-1000000), R(-707107)>>

\* cos and sin of (i / 10) * 2 * PI, i = 0..9
SpiralCos == <<R(1000000), R(809017), R(309017), R(-309017), R(-809017),
               R(-1000000), R(-809017), R(-309017), R(309017), R(809017)>>
SpiralSin == <<R(0), R(587785), R(951057), R(951056), R(587785),
               T(-874), R(-587786), R(-951056), R(-951056), R(-587785)>>

\* cos and sin of (frame_count as f32 / 10.0) % (2 * PI), frame_count = 0..12
ScannerCosLow == <<R(1000000), R(995004), R(980067), R(955337), R(921061),
                   R(877583), R(825336), R(764842), R(696707), R(621610),
                   R(540302), R(453596), R(362358)>>
ScannerSinLow == <<R(0), R(99833), R(198669), R(295520), R(389418),
                   R(479426), R(564642), R(644218), R(717356), R(783327),
                   R(841471), R(891207), R(932039)>>

\* A frame_count near u64::MAX becomes 2^64 as f32; the angle is 2.788342.
ScannerCos(frame) == IF frame < 0 THEN R(-938253) ELSE ScannerCosLow[frame + 1]
ScannerSin(frame) == IF frame < 0 THEN R(345950) ELSE ScannerSinLow[frame + 1]

(***************************************************************************)
(* BrailleAnimator                                                         *)
(***************************************************************************)
AnimationType == {"Wave", "Pulse", "Matrix", "Spiral", "Scanner"}

Drawn(c)    == [canvas |-> c, status |-> "ok"]
Panicked(c) == [canvas |-> c, status |-> "panic"]

\* fn draw_wave_animation: the row height / 2 of every column
WaveAnimation(c, w, h) ==
    Drawn([x \in 0..(w - 1) |-> [y \in 0..(h - 1) |-> c[x][y] \/ y = h \div 2]])

RECURSIVE PulseLoop(_, _, _, _)
\* fn draw_pulse_animation, from iteration i on
PulseLoop(c, w, h, i) ==
    IF i = 8 THEN Drawn(c)
    ELSE LET x == AddCast(w \div 2, Min(w, h), 4, PulseCos[i + 1])
             y == AddCast(h \div 2, Min(w, h), 4, PulseSin[i + 1])
         IN  PulseLoop(CanvasSet(c, w, h, x, y, TRUE), w, h, i + 1)

RECURSIVE MatrixLoop(_, _, _, _, _, _)
\* fn draw_matrix_animation, from iteration i on: `% self.width` and
\* `% self.height` panic on a zero divisor, and the addition panics on
\* overflow when the build checks overflow and wraps when it does not.
MatrixLoop(c, w, h, frame, checks, i) ==
    IF i = 5 THEN Drawn(c)
    ELSE IF w = 0 THEN Panicked(c)
    ELSE IF checks /\ UAddOverflows(frame, i * 3) THEN Panicked(c)
    ELSE IF h = 0 THEN Panicked(c)
    ELSE LET x == (i * 10) % w
             y == UMod(frame + i * 3, h)
         IN  MatrixLoop(CanvasSet(c, w, h, x, y, TRUE), w, h, frame, checks, i + 1)

RECURSIVE SpiralLoop(_, _, _, _)
\* fn draw_spiral_animation, from iteration i on
SpiralLoop(c, w, h, i) ==
    IF i = 10 THEN Drawn(c)
    ELSE LET x == AddCast(w \div 2, i * Min(w, h), 30, SpiralCos[i + 1])
             y == AddCast(h \div 2, i * Min(w, h), 30, SpiralSin[i + 1])
         IN  SpiralLoop(CanvasSet(c, w, h, x, y, TRUE), w, h, i + 1)

RECURSIVE ScannerLoop(_, _, _, _, _)
\* fn draw_scanner_animation, from iteration i on
ScannerLoop(c, w, h, frame, i) ==
    IF i = 10 THEN Drawn(c)
    ELSE LET x == AddCast(w \div 2, i * Min(w, h), 20, ScannerCos(frame))
             y == AddCast(h \div 2, i * Min(w, h), 20, ScannerSin(frame))
         IN  ScannerLoop(CanvasSet(c, w, h, x, y, TRUE), w, h, frame, i + 1)

\* A plausible slip: update draws over the previous frame.
UpdateClearSkipped(c, w, h) == c

\* fn update: self.canvas.clear()
UpdateClear(c, w, h) == CanvasClear(c, w, h)

\* fn update: the match on animation_type
Animation(c, w, h, type, frame, checks) ==
    CASE type = "Wave"    -> WaveAnimation(c, w, h)
      [] type = "Pulse"   -> PulseLoop(c, w, h, 0)
      [] type = "Matrix"  -> MatrixLoop(c, w, h, frame, checks, 0)
      [] type = "Spiral"  -> SpiralLoop(c, w, h, 0)
      [] type = "Scanner" -> ScannerLoop(c, w, h, frame, 0)

\* fn new
AnimatorNew(w, h, type, now) ==
    [width |-> w, height |-> h, canvas |-> CanvasNew(w, h), start_time |-> now,
     animation_type |-> type, frame_count |-> 0, status |-> "new", again |-> FALSE]

Some(v) == [kind |-> "some", v |-> v]

\* fn update; `count` is None or Some(frame index).  `status` tells whether
\* the animator was updated and how the last update ended, `again` whether
\* it was updated more than once.
AnimatorUpdate(a, count, checks) ==
    LET frame == IF count = None THEN a.frame_count + 1 ELSE count.v
        drawn == Animation(UpdateClear(a.canvas, a.width, a.height),
                           a.width, a.height, a.animation_type, frame, checks)
    IN  [a EXCEPT !.frame_count = frame,
                  !.canvas = drawn.canvas,
                  !.status = drawn.status,
                  !.again = (a.status # "new")]

(***************************************************************************)
(* SpecAnim: two animators of the same variant and dimensions, created at  *)
(* different times in one program, each updated on its own.                *)
(***************************************************************************)
FrameIndexes == (-MaxBack)..MaxFrame

InitAnim ==
    /\ axes = None /\ app = None
    /\ width = 0 /\ height = 0
    /\ data = CanvasNew(0, 0)
    /\ op = [kind |-> "new", w |-> 0, h |-> 0]
    /\ calls = 0
    /\ text = <<>>
    /\ line = IdleLine
    /\ path = <<>>
    /\ chart = IdleChart
    /\ seg = None
    /\ \E w \in 0..MaxAnimDim, h \in 0..MaxAnimDim, type \in AnimationType,
          checks \in BOOLEAN :
          anim = [overflow_checks |-> checks,
                  a |-> <<AnimatorNew(w, h, type, 0), AnimatorNew(w, h, type, MaxStart)>>]
    /\ ats = None /\ scan = None /\ spark = None

\* animator.update(Some(count))
AnimUpdateSome ==
    /\ \E i \in 1..2, count \in FrameIndexes :
          /\ anim.a[i].status # "panic"
          /\ anim' = [anim EXCEPT !.a[i] =
                         AnimatorUpdate(anim.a[i], Some(count), anim.overflow_checks)]
    /\ UNCHANGED <<axes, app, width, height, data, op, calls, text, line, path, chart, seg,
                   ats, scan, spark>>

\* animator.update(None)
AnimUpdateNone ==
    /\ \E i \in 1..2 :
          /\ anim.a[i].status # "panic"
          /\ anim.a[i].frame_count < MaxFrame
          /\ anim' = [anim EXCEPT !.a[i] =
                         AnimatorUpdate(anim.a[i], None, anim.overflow_checks)]
    /\ UNCHANGED <<axes, app, width, height, data, op, calls, text, line, path, chart, seg,
                   ats, scan, spark>>

NextAnim == AnimUpdateSome \/ AnimUpdateNone

SpecAnim == InitAnim /\ [][NextAnim]_vars

\* C11: for every animation variant and every frame index, updating an
\* animator whose canvas has width 0 or height 0 completes without failure
\* and lights no pixel.
C11_EmptyCanvasUpdate ==
    \A i \in 1..2 :
        (anim.a[i].status # "new" /\ (anim.a[i].width = 0 \/ anim.a[i].height = 0))
        => /\ anim.a[i].status = "ok"
           /\ Lit(anim.a[i].canvas, anim.a[i].width, anim.a[i].height) = {}

\* C14: two animators of the same variant and dimensions that were updated
\* and hold the same frame index ended the update the same way and light
\* exactly the same pixels, whatever their creation times and whatever
\* updates each went through before.
C14_Deterministic ==
    (/\ anim.a[1].status # "new" /\ anim.a[2].status # "new"
     /\ anim.a[1].frame_count = anim.a[2].frame_count)
    => /\ anim.a[1].canvas = anim.a[2].canvas
       /\ anim.a[1].status = anim.a[2].status

\* Two Matrix animators created at different times hold frame 1 and light
\* pixels; one was updated once, the other more than once.
C14_Witness ==
    /\ anim.a[1].animation_type = "Matrix"
    /\ anim.a[1].start_time # anim.a[2].start_time
    /\ anim.a[1].status = "ok" /\ anim.a[2].status = "ok"
    /\ anim.a[1].frame_count = 1 /\ anim.a[2].frame_count = 1
    /\ anim.a[1].again /\ ~anim.a[2].again
    /\ Lit(anim.a[1].canvas, anim.a[1].width, anim.a[1].height) # {}

(***************************************************************************)
(* SparklineBraille::render                                                *)
(***************************************************************************)
\* a.min(b) on usize
UMin(a, b) == IF ULt(a, b) THEN a ELSE b

\* f64::MIN and f64::MAX: stand-ins beyond every value of the model
F64Min == -1000
F64Max == 1000

RECURSIVE FoldMax(_, _)
\* data.iter().fold(f64::MIN, |acc, &x| acc.max(x)), over the first n values
FoldMax(s, n) == IF n = 0 THEN F64Min ELSE Max(FoldMax(s, n - 1), s[n])

RECURSIVE FoldMin(_, _)
\* data.iter().fold(f64::MAX, |acc, &x| acc.min(x)), over the first n values
FoldMin(s, n) == IF n = 0 THEN F64Max ELSE Min(FoldMin(s, n - 1), s[n])

\* A plausible slip: an empty slice is not tested for.
SparkReturnsEarlyNotEmpty(area, s) == area[1] < 1 \/ area[2] < 1

\* chart_area.width < 1 || chart_area.height < 1 || self.data.is_empty()
SparkReturnsEarly(area, s) == area[1] < 1 \/ area[2] < 1 \/ s = <<>>

\* data_len - 1 on usize
SparkLoopBound(n) == n - 1

\* A plausible slip: the span is not padded.
SparkYScaleUnpadded(h, min, max) == FDiv(h, max - min)

\* y_scale = height as f64 / (max - min + 1.0)
SparkYScale(h, min, max) == FDiv(h, max - min + 1)

\* x_scale = width as f64 / data_len.max(1) as f64
SparkXScale(w, n) == FDiv(w, Max(n, 1))

\* (i as f64 * x_scale) as usize
SparkX(i, x_scale) == ToUsize(FMul(x_scale, i))

\* ((v - min) * y_scale) as usize, the value taken from height
SparkYCast(v, min, y_scale) == ToUsize(FMul(y_scale, v - min))

\* height - c on usize: the difference modulo 2^64
SparkRow(h, c) == h - c

\* the values a sparkline is given, and the limits a caller may set
SparkValues == (-1)..MaxSparkVal
SparkLimits == {None} \cup { Some(v) : v \in SparkValues }

RECURSIVE Slices(_)
\* the slices of at most n values
Slices(n) ==
    IF n = 0 THEN {<<>>}
    ELSE LET shorter == Slices(n - 1)
         IN  shorter \cup { Append(s, v) : s \in { t \in shorter : Len(t) = n - 1 },
                                           v \in SparkValues }

(***************************************************************************)
(* SpecSpark: one render of a sparkline without a block, one iteration of  *)
(* the loop per step.  spark holds                                         *)
(*   kind   "call" before render runs, "loop" inside the loop, "done"      *)
(*          after render returned, "panic" after it panicked               *)
(*   area   the cells of chart_area, <<width, height>>                     *)
(*   data, min, max   the widget's fields                                  *)
(*   lo, hi the locals min and max                                         *)
(*   bound  the loop bound data_len - 1, or None before it is evaluated    *)
(*   i      the loop variable                                              *)
(*   from, to   the clamped points of the last iteration, or None          *)
(*   casts  the two values the last iteration took from height             *)
(*   lines  the calls of draw_line made                                    *)
(*   buf    the strings set into the buffer, in order                      *)
(***************************************************************************)
InitSpark ==
    /\ axes = None /\ app = None
    /\ width = 0 /\ height = 0
    /\ data = CanvasNew(0, 0)
    /\ op = [kind |-> "new", w |-> 0, h |-> 0]
    /\ calls = 0
    /\ text = <<>>
    /\ line = IdleLine
    /\ path = <<>>
    /\ chart = IdleChart
    /\ seg = None
    /\ anim = None /\ ats = None /\ scan = None
    /\ \E cw \in 0..MaxSparkCells, chh \in 0..1, s \in Slices(MaxSparkLen),
          min \in SparkLimits, max \in SparkLimits :
          spark = [kind |-> "call", area |-> <<cw, chh>>, data |-> s,
                   min |-> min, max |-> max, lo |-> 0, hi |-> 0,
                   bound |-> None, i |-> 0,
                   from |-> None, to |-> None, casts |-> None,
                   lines |-> 0, buf |-> <<>>]

\* render up to the loop: the early return, the limits, the canvas.
SparkBegin ==
    /\ spark.kind = "call"
    /\ IF SparkReturnsEarly(spark.area, spark.data)
       THEN /\ spark' = [spark EXCEPT !.kind = "done"]
            /\ UNCHANGED <<width, height, data>>
       ELSE /\ spark' = [spark EXCEPT
                           !.kind = "loop",
                           !.hi = IF spark.max = None
                                  THEN FoldMax(spark.data, Len(spark.data))
                                  ELSE spark.max.v,
                           !.lo = IF spark.min = None
                                  THEN FoldMin(spark.data, Len(spark.data))
                                  ELSE spark.min.v,
                           !.bound = Some(SparkLoopBound(Len(spark.data)))]
            /\ width' = spark.area[1] * 2
            /\ height' = spark.area[2] * 4
            /\ data' = CanvasNew(spark.area[1] * 2, spark.area[2] * 4)
    /\ UNCHANGED <<axes, app, op, calls, text, line, path, chart, seg, anim, ats, scan>>

\* One iteration of `for i in 0..data_len - 1`.  A subtraction from height
\* that leaves the range of usize panics when the build checks overflow and
\* wraps when it does not; an index past the slice panics.
SparkIter ==
    /\ spark.kind = "loop"
    /\ ULt(spark.i, spark.bound.v)
    /\ LET x_scale == SparkXScale(width, Len(spark.data))
           y_scale == SparkYScale(height, spark.lo, spark.hi)
           c1 == SparkYCast(spark.data[spark.i + 1], spark.lo, y_scale)
           c2 == SparkYCast(spark.data[spark.i + 2], spark.lo, y_scale)
           x1 == UMin(SparkX(spark.i, x_scale), width - 1)
           x2 == UMin(SparkX(spark.i + 1, x_scale), width - 1)
           y1 == UMin(SparkRow(height, c1), height - 1)
           y2 == UMin(SparkRow(height, c2), height - 1)
           drawn == /\ spark' = [spark EXCEPT !.i = spark.i + 1,
                                              !.from = <<x1, y1>>, !.to = <<x2, y2>>,
                                              !.casts = <<c1, c2>>,
                                              !.lines = spark.lines + 1]
                    /\ data' = DrawLine(data, width, height, x1, y1, x2, y2)
                    /\ seg' = [kind |-> "line", from |-> <<x1, y1>>, to |-> <<x2, y2>>]
           panicked == /\ spark' = [spark EXCEPT !.kind = "panic", !.casts = <<c1, c2>>]
                       /\ UNCHANGED <<data, seg>>
       IN  IF spark.i + 2 > Len(spark.data)
           THEN /\ spark' = [spark EXCEPT !.kind = "panic"]
                /\ UNCHANGED <<data, seg>>
           ELSE IF ULt(height, c1) \/ ULt(height, c2)
           THEN drawn \/ panicked
           ELSE drawn
    /\ UNCHANGED <<axes, app, width, height, op, calls, text, line, path, chart, anim, ats, scan>>

\* After the loop: canvas.to_string() and one set_string per line that fits.
SparkEnd ==
    /\ spark.kind = "loop"
    /\ ~ULt(spark.i, spark.bound.v)
    /\ text' = CanvasToString(data, width, height)
    /\ spark' = [spark EXCEPT
                   !.kind = "done",
                   !.buf = LET ls == Lines(CanvasToString(data, width, height))
                           IN  SubSeq(ls, 1, Min(Len(ls), spark.area[2]))]
    /\ UNCHANGED <<axes, app, width, height, data, op, calls, line, path, chart, seg, anim, ats, scan>>

NextSpark == SparkBegin \/ SparkIter \/ SparkEnd

SpecSpark == InitSpark /\ [][NextSpark]_vars

AllEqual(s) == \A i, j \in 1..Len(s) : s[i] = s[j]

SparkRan == spark # None /\ spark.kind \in {"loop", "done", "panic"}

\* C12: on data whose values are all equal, with both limits found from the
\* data, the sparkline renders without failure, the span used for scaling is
\* padded (y_scale is finite and not zero), and every lit pixel lies on one
\* row.
C12_FlatLine ==
    (/\ SparkRan
     /\ spark.data # <<>> /\ AllEqual(spark.data)
     /\ spark.min = None /\ spark.max = None)
    => /\ spark.kind # "panic"
       /\ spark.bound # None =>
             /\ SparkYScale(height, spark.lo, spark.hi).k = "fin"
             /\ SparkYScale(height, spark.lo, spark.hi).n # 0
             /\ \A p, q \in Lit(data, width, height) : p[2] = q[2]

\* [1.0, 1.0, 1.0] was rendered: two segments, pixels lit, text written.
C12_Witness ==
    /\ spark # None /\ spark.kind = "done"
    /\ spark.data = <<1, 1, 1>>
    /\ spark.min = None /\ spark.max = None
    /\ spark.lines = 2
    /\ Lit(data, width, height) # {}
    /\ spark.buf # <<>>

C19_LimitsTotal ==
    (SparkRan /\ spark.data # <<>> /\ (spark.min # None \/ spark.max # None))
    => /\ spark.kind # "panic"
       /\ spark.casts # None =>
             (~ULt(height, spark.casts[1]) /\ ~ULt(height, spark.casts[2]))
       /\ spark.from # None => (InCanvas(spark.from) /\ InCanvas(spark.to))

(***************************************************************************)
(* AnimatedTextState.  Instants and Durations are whole ticks of the       *)
(* monotonic clock.                                                        *)
(***************************************************************************)
\* Default::default() followed by the builders update_interval and
\* set_animation_type
AnimatedTextStateNew(now, interval, type) ==
    [frames |-> 0, last_update |-> now, update_interval |-> interval,
     animation_type |-> type]

\* A plausible slip: a late call catches up on the intervals it missed.
FramesAdvancedCatchUp(frames, elapsed, interval) ==
    IF interval = 0 THEN frames + 1 ELSE frames + elapsed \div interval

\* self.frames.wrapping_add(1): usize::MAX, written -1, becomes 0
FramesAdvanced(frames, elapsed, interval) == frames + 1

\* fn update, with the Instant::now() it reads
AnimatedTextStateUpdate(s, now) ==
    IF now - s.last_update >= s.update_interval
    THEN [s EXCEPT !.frames = FramesAdvanced(s.frames, now - s.last_update,
                                             s.update_interval),
                   !.last_update = now]
    ELSE s

(***************************************************************************)
(* SpecText: an AnimatedTextState updated at any times.  ats holds the     *)
(* state (s) and the clock at the last call (now).  The state is created   *)
(* at time 0; its counter starts at 0 or, standing for a state that has    *)
(* been updated for long, a few steps before usize::MAX.                   *)
(***************************************************************************)
InitText ==
    /\ axes = None /\ app = None
    /\ width = 0 /\ height = 0
    /\ data = CanvasNew(0, 0)
    /\ op = [kind |-> "new", w |-> 0, h |-> 0]
    /\ calls = 0
    /\ text = <<>>
    /\ line = IdleLine
    /\ path = <<>>
    /\ chart = IdleChart
    /\ seg = None
    /\ anim = None /\ scan = None /\ spark = None
    /\ \E interval \in 0..MaxInterval, type \in AnimationType, back \in 0..MaxBack :
          ats = [s |-> [AnimatedTextStateNew(0, interval, type) EXCEPT !.frames = -back],
                 now |-> 0]

\* The clock advances by dt and update() is called.
TextUpdate ==
    /\ ats.s.frames < MaxFrame
    /\ \E dt \in 0..MaxDt :
          /\ ats.now + dt <= MaxTime
          /\ ats' = [s |-> AnimatedTextStateUpdate(ats.s, ats.now + dt),
                     now |-> ats.now + dt]
    /\ UNCHANGED <<axes, app, width, height, data, op, calls, text, line, path, chart, seg,
                   anim, scan, spark>>

NextText == TextUpdate

SpecText == InitText /\ [][NextText]_vars

\* C15: update advances the frame counter by exactly one (wrapping) if and
\* only if the time elapsed since last_update is at least update_interval,
\* and then sets last_update to now, however many intervals have elapsed;
\* otherwise the counter and last_update are unchanged.
C15_UpdateStep ==
    [][LET elapsed == ats'.now - ats.s.last_update
       IN  /\ elapsed >= ats.s.update_interval =>
                /\ ats'.s.frames = IF ats.s.frames = -1 THEN 0 ELSE ats.s.frames + 1
                /\ ats'.s.last_update = ats'.now
           /\ elapsed < ats.s.update_interval =>
                /\ ats'.s.frames = ats.s.frames
                /\ ats'.s.last_update = ats.s.last_update
           /\ ats'.s.update_interval = ats.s.update_interval
      ]_vars

\* A call came three intervals or more after the last update and advanced
\* the counter from 0 to 1.
C15_Witness ==
    /\ ats # None
    /\ ats.s.update_interval = 1
    /\ ats.s.frames = 1
    /\ ats.s.last_update = 3
    /\ ats.now = 3

(***************************************************************************)
(* ScannerTextState                                                        *)
(***************************************************************************)
\* Default::default() followed by the builder update_interval
ScannerTextStateNew(now, interval) ==
    [position |-> 0, direction |-> 1, last_update |-> now,
     update_interval |-> interval, status |-> "ok"]

\* A plausible slip: the scanner turns one cell late.
ScannerTurnLate(max_width) == max_width - 2

\* max_width - 3 on usize: the difference modulo 2^64
ScannerTurn(max_width) == max_width - 3

\* fn update, with the Instant::now() it reads.  `wraps` tells what
\* max_width - 3 does when it leaves the range of usize: it wraps, or (when
\* the build checks overflow) it panics.
ScannerTextStateUpdate(s, max_width, now, wraps) ==
    IF now - s.last_update >= s.update_interval
    THEN LET position == s.position + s.direction
         IN  IF max_width < 3 /\ ~wraps
             THEN [s EXCEPT !.position = position, !.status = "panic"]
             ELSE [s EXCEPT
                     !.position = position,
                     !.direction = IF ~ULt(position, ScannerTurn(max_width)) THEN -1
                                   ELSE IF position = 0 THEN 1
                                   ELSE s.direction,
                     !.last_update = now]
    ELSE s

\* scanner_width.min(line.len() - pos)
ScannerWidthClamped(scanner_width, len, pos) == Min(scanner_width, len - pos)

\* ScannerText::render, the highlight of one line of len bytes: nothing on an
\* empty line; otherwise the range [pos, pos + k) of the line.  `inner_area
\* .width as usize - pos` leaves the range of usize when pos > width: it
\* wraps (the minimum with 3 is then 3) or, when the build checks overflow,
\* it panics.  A range that ends past the line's end panics as well.
ScannerHighlight(position, len, w, wraps) ==
    IF len = 0 THEN None
    ELSE LET pos == UMin(position, SaturatingSub(len, 1))
         IN  IF pos > w /\ ~wraps THEN [kind |-> "panic", len |-> len]
             ELSE LET scanner_width == IF pos > w THEN 3 ELSE Min(3, w - pos)
                      k == ScannerWidthClamped(scanner_width, len, pos)
                 IN  IF pos + k > len THEN [kind |-> "panic", len |-> len]
                     ELSE [kind |-> "some", pos |-> pos, k |-> k, len |-> len]

(***************************************************************************)
(* SpecScanner: a ScannerTextState updated by ScannerText::render with any *)
(* inner widths at any times.  scan holds                                  *)
(*   s      the state                                                      *)
(*   now    the clock at the last call                                     *)
(*   elapsed  the duration since last_update that the last call found, -1  *)
(*          when it returned before the update                             *)
(*   width  the inner width of the last call that updated the state        *)
(*   fixed  0 before the first call; the inner width while every call so   *)
(*          far had the same one; -1 after calls with different widths     *)
(*   len    the length in bytes of the widget's text, one line             *)
(*   hl     the highlight the last call laid over that line, if any        *)
(* Instants are only ever subtracted from each other, so the clock is kept *)
(* relative to last_update.                                                *)
(***************************************************************************)
\* the widget's line of text: empty, shorter than the highlight, or long
LineLengths == {0, 2, MaxLineLen}

InitScanner ==
    /\ axes = None /\ app = None
    /\ width = 0 /\ height = 0
    /\ data = CanvasNew(0, 0)
    /\ op = [kind |-> "new", w |-> 0, h |-> 0]
    /\ calls = 0
    /\ text = <<>>
    /\ line = IdleLine
    /\ path = <<>>
    /\ chart = IdleChart
    /\ seg = None
    /\ anim = None /\ ats = None /\ spark = None
    /\ \E interval \in 0..MaxInterval, len \in LineLengths :
          scan = [s |-> ScannerTextStateNew(0, interval), now |-> 0,
                  elapsed |-> 0, width |-> 0, fixed |-> 0, len |-> len,
                  hl |-> None]

\* The clock advances by dt and render runs in an area of inner width w (and
\* a height of at least 1): it returns at once when w < 1; otherwise it
\* calls state.update(w) and then lays the highlight over the line of text.
\* A panic in update unwinds before the highlight.
ScannerRender ==
    /\ scan.s.status = "ok"
    /\ scan.hl.kind # "panic"
    /\ scan.s.position < MaxScanW
    /\ scan.s.position >= -MaxBack
    /\ \E w \in 0..MaxScanW, dt \in 0..MaxDt, wraps \in BOOLEAN :
          LET now == scan.now + dt
              s   == ScannerTextStateUpdate(scan.s, w, now, wraps)
          IN  /\ now <= MaxTime
              /\ scan' = IF w < 1
                      THEN [scan EXCEPT !.now = now, !.elapsed = -1, !.hl = None]
                      ELSE [s |-> [s EXCEPT !.last_update = 0],
                            now |-> now - s.last_update,
                            elapsed |-> now - scan.s.last_update,
                            width |-> w,
                            fixed |-> IF scan.fixed \in {0, w} THEN w ELSE -1,
                            len |-> scan.len,
                            hl |-> IF s.status = "ok"
                                   THEN ScannerHighlight(s.position, scan.len, w, wraps)
                                   ELSE None]
    /\ UNCHANGED <<axes, app, width, height, data, op, calls, text, line, path, chart, seg,
                   anim, ats, spark>>

NextScanner == ScannerRender

SpecScanner == InitScanner /\ [][NextScanner]_vars

\* C16: after any sequence of update(width) calls with width >= 1, the
\* position is never negative (never wraps below 0), never exceeds
\* width - 1, and computing width - 3 never fails.
C16_PositionInRange ==
    (scan # None /\ scan.width >= 1)
    => /\ scan.s.status = "ok"
       /\ scan.s.position >= 0
       /\ scan.s.position <= scan.width - 1

\* C17: with the width fixed at 10, from position 0 and direction +1, the
\* position stays within 0..7 and changes by exactly 1 (in the current
\* direction) per qualifying update and not at all otherwise; the direction
\* is -1 at position 7 and +1 back at position 0, and changes nowhere else.
C17_Sweep ==
    /\ [](scan.fixed = 10 =>
            /\ scan.s.status = "ok"
            /\ scan.s.position \in 0..7
            /\ scan.s.position = 7 => scan.s.direction = -1
            /\ scan.s.position = 0 => scan.s.direction = 1)
    /\ [][scan'.fixed = 10 =>
            IF scan'.elapsed >= scan.s.update_interval
            THEN /\ scan'.s.position = scan.s.position + scan.s.direction
                 /\ Abs(scan'.s.position - scan.s.position) = 1
                 /\ scan'.s.direction =
                       IF scan'.s.position = 7 THEN -1
                       ELSE IF scan'.s.position = 0 THEN 1
                       ELSE scan.s.direction
            ELSE /\ scan'.s.position = scan.s.position
                 /\ scan'.s.direction = scan.s.direction
      ]_vars

\* The scanner, updated one interval apart, has turned at 7 and is on its
\* way back.
C17_Witness ==
    /\ scan # None /\ scan.fixed = 10
    /\ scan.s.update_interval = 1
    /\ scan.s.position = 6 /\ scan.s.direction = -1

\* C20: drawing a dataset with zero points leaves the canvas unchanged, and
\* drawing a dataset with exactly one point makes no draw_line call: it
\* lights exactly one pixel when the point is inside the axis bounds and none
\* otherwise.
C20_ZeroOrOnePoint ==
    /\ [][(chart # None /\ chart'.n = 0) => (data' = data /\ seg' = None)]_vars
    /\ []((chart # None /\ chart.n = 1) =>
            /\ seg = None
            /\ Cardinality(Lit(data, width, height)) =
                  IF OutOfBounds(chart.pt) THEN 0 ELSE 1)

\* A dataset of one point inside the bounds was drawn: one pixel is lit.
C20_Witness ==
    /\ chart # None /\ chart.kind = "done" /\ chart.n = 1
    /\ ~OutOfBounds(chart.pt)
    /\ Cardinality(Lit(data, width, height)) = 1
    /\ seg = None

(***************************************************************************)
(* SpecRender: BrailleChart::render from the creation of the canvas on,    *)
(* for one dataset, in a graph area of 10 x 2 cells with the axis bounds   *)
(* x in [0, 2] and y in [0, 10]; one data point per step.  chart holds     *)
(* draw_dataset's locals as in SpecChart, and                              *)
(*   pts    the points of the dataset read so far                          *)
(*   cxys   the canvas points of those that were kept                      *)
(*   segs   the draw_line calls made                                       *)
(*   buf    the strings set into the buffer, in order                      *)
(***************************************************************************)
RenderPoints == (0..MaxVal) \X { 5 * k : k \in 0..MaxVal }

InitRender ==
    /\ axes = None /\ app = None
    /\ width = 10 * 2
    /\ height = 2 * 4
    /\ data = CanvasNew(width, height)
    /\ op = [kind |-> "new", w |-> width, h |-> height]
    /\ calls = 0
    /\ text = <<>>
    /\ line = IdleLine
    /\ path = <<>>
    /\ chart = [kind |-> "loop", xb |-> <<0, 2>>, yb |-> <<0, 10>>, n |-> 0,
                pt |-> None, prev |-> None, fx |-> None, fy |-> None, cxy |-> None,
                pts |-> <<>>, cxys |-> <<>>, segs |-> 0, buf |-> <<>>]
    /\ seg = None
    /\ anim = None /\ ats = None /\ scan = None /\ spark = None

\* One iteration of `for &(x, y) in &dataset.data`.
RenderPoint ==
    /\ chart.kind = "loop"
    /\ chart.n < MaxPts
    /\ \E p \in RenderPoints :
          LET c == [chart EXCEPT !.n = chart.n + 1, !.pt = p,
                                 !.pts = Append(chart.pts, p)]
          IN  IF Dropped(p, chart.xb, chart.yb)
              THEN /\ chart' = [c EXCEPT !.prev = PrevAfterDrop(chart),
                                         !.fx = None, !.fy = None, !.cxy = None]
                   /\ seg' = None
                   /\ UNCHANGED data
              ELSE LET cxy == CanvasXY(p, chart.xb, chart.yb, width, height)
                       dot == CanvasSet(data, width, height, cxy[1], cxy[2], TRUE)
                   IN  /\ chart' = [c EXCEPT
                                      !.prev = cxy,
                                      !.fx = ScaleXF(p[1], chart.xb[1], chart.xb[2], width),
                                      !.fy = ScaleYF(p[2], chart.yb[1], chart.yb[2], height),
                                      !.cxy = cxy,
                                      !.cxys = Append(chart.cxys, cxy),
                                      !.segs = IF chart.prev # None
                                               THEN chart.segs + 1 ELSE chart.segs]
                       /\ IF chart.prev # None
                          THEN /\ data' = DrawLine(dot, width, height,
                                                   chart.prev[1], chart.prev[2], cxy[1], cxy[2])
                               /\ seg' = [kind |-> "line", from |-> chart.prev, to |-> cxy]
                          ELSE /\ data' = dot
                               /\ seg' = None
    /\ UNCHANGED <<axes, app, width, height, op, calls, text, line, path, anim, ats, scan, spark>>

\* The dataset is drawn (or empty): canvas.to_string() and one set_string
\* per line that fits the graph area.
RenderFinish ==
    /\ chart.kind = "loop"
    /\ text' = CanvasToString(data, width, height)
    /\ chart' = [chart EXCEPT
                   !.kind = "done",
                   !.buf = LET ls == Lines(CanvasToString(data, width, height))
                           IN  SubSeq(ls, 1, Min(Len(ls), height \div 4))]
    /\ UNCHANGED <<axes, app, width, height, data, op, calls, line, path, seg, anim, ats, scan, spark>>

NextRender == RenderPoint \/ RenderFinish

SpecRender == InitRender /\ [][NextRender]_vars

\* The dataset [(0,0), (1,5), (2,0)] was rendered.
TentRendered ==
    /\ chart # None /\ chart.kind = "done"
    /\ chart.pts = << <<0, 0>>, <<1, 5>>, <<2, 0>> >>

\* C18: for the dataset [(0,0), (1,5), (2,0)] with x in [0, 2] and y in
\* [0, 10] on the 20 x 8 canvas, the points map to (0,8), (10,0) and (20,8),
\* the last clipped at width 19; two segments are rasterized; the text is 2
\* lines of 10 characters, and a character is not blank only if a pixel of
\* the tent lies in its block.
C18_Tent ==
    TentRendered =>
        /\ chart.cxys = << <<0, 8>>, <<10, 0>>, <<Min(20, 19), 8>> >>
        /\ chart.segs = 2
        /\ Len(chart.buf) = 2
        /\ \A cy \in 1..Len(chart.buf) :
              /\ Len(chart.buf[cy]) = 10
              /\ \A cx \in 1..Len(chart.buf[cy]) :
                    chart.buf[cy][cx] # BrailleBase
                    => BlockMask(data, width, height, cx - 1, cy - 1) # 0

(***************************************************************************)
(* BrailleChart::render up to render_axes, and render_axes' tick labels    *)
(* (braille_chart.rs), one label per step.  Coordinates are u16; they stay *)
(* far from 65535 within the bounds used.  The chart has no block, so      *)
(* chart_area is the area render is given.                                 *)
(***************************************************************************)
Rect(x, y, w, h) == [x |-> x, y |-> y, width |-> w, height |-> h]

y_label_width == 6
x_label_height == 2

\* graph_area: the chart area without the room of the axes and labels
GraphArea(chart_area) ==
    Rect(chart_area.x + y_label_width, chart_area.y,
         SaturatingSub(chart_area.width, y_label_width),
         SaturatingSub(chart_area.height, x_label_height))

\* render's two early returns, before render_axes is called
RenderReturnsEarly(area) ==
    \/ area.width < 5 \/ area.height < 5
    \/ GraphArea(area).width = 0 \/ GraphArea(area).height = 0

\* `(i as f32 / (label_count - 1) as f32 * extent as f32) as u16`: with one
\* label the quotient is 0.0 / 0.0, NaN, which the cast turns into 0.  The
\* f32 product of the small integers used truncates as the exact one does.
TickOffset(i, label_count, extent) ==
    ToUsize(FMul(FDiv(i, label_count - 1), extent))

\* y_pos of label i on the Y axis
TickY(graph_area, i, label_count) ==
    graph_area.y + graph_area.height - TickOffset(i, label_count, graph_area.height)

\* x_pos of label i on the X axis
TickX(graph_area, i, label_count) ==
    graph_area.x + TickOffset(i, label_count, graph_area.width)

\* the guards under which a label and its tick mark are written
YLabelShown(chart_area, y_pos) == y_pos < chart_area.y + chart_area.height
XLabelShown(chart_area, x_pos) == x_pos < chart_area.x + chart_area.width

AxisOrigins == 0..1
AxisWidths  == 4..MaxAxisW
AxisHeights == 4..MaxAxisH

InitAxes ==
    /\ width = 0 /\ height = 0
    /\ data = CanvasNew(0, 0)
    /\ op = [kind |-> "new", w |-> 0, h |-> 0]
    /\ calls = 0
    /\ text = <<>>
    /\ line = IdleLine
    /\ path = <<>>
    /\ chart = IdleChart
    /\ seg = None
    /\ anim = None /\ ats = None /\ scan = None /\ spark = None
    /\ app = None
    /\ \E x \in AxisOrigins, y \in AxisOrigins, w \in AxisWidths, h \in AxisHeights,
          ny \in 0..MaxLabels, nx \in 0..MaxLabels, len \in 1..MaxLabelLen :
          axes = [status |-> "call", chart_area |-> Rect(x, y, w, h),
                  graph_area |-> None, y_labels |-> ny, x_labels |-> nx,
                  label_len |-> len, i |-> 0, y_pos |-> <<>>, x_pos |-> <<>>,
                  x_text |-> <<>>]

\* render: the early returns, or the call of render_axes up to the Y labels
AxesBegin ==
    /\ axes.status = "call"
    /\ axes' = IF RenderReturnsEarly(axes.chart_area)
               THEN [axes EXCEPT !.status = "returned"]
               ELSE [axes EXCEPT !.status = "y",
                                 !.graph_area = GraphArea(axes.chart_area)]
    /\ UNCHANGED <<width, height, data, op, calls, text, line, path, chart, seg,
                   anim, ats, scan, spark, app>>

\* one iteration of the loop over y_axis.labels; a label that fails the
\* guard is not written (None)
AxesYLabel ==
    /\ axes.status = "y"
    /\ axes.i < axes.y_labels
    /\ LET y_pos == TickY(axes.graph_area, axes.i, axes.y_labels)
       IN  axes' = [axes EXCEPT
                       !.i = axes.i + 1,
                       !.y_pos = Append(axes.y_pos,
                                   IF YLabelShown(axes.chart_area, y_pos)
                                   THEN Some(y_pos) ELSE None)]
    /\ UNCHANGED <<width, height, data, op, calls, text, line, path, chart, seg,
                   anim, ats, scan, spark, app>>

\* the end of the Y labels (an empty list skips the loop)
AxesYEnd ==
    /\ axes.status = "y"
    /\ axes.i = axes.y_labels
    /\ axes' = [axes EXCEPT !.status = "x", !.i = 0]
    /\ UNCHANGED <<width, height, data, op, calls, text, line, path, chart, seg,
                   anim, ats, scan, spark, app>>

\* one iteration of the loop over x_axis.labels: the tick mark at x_pos, the
\* text centred on it
AxesXLabel ==
    /\ axes.status = "x"
    /\ axes.i < axes.x_labels
    /\ LET x_pos == TickX(axes.graph_area, axes.i, axes.x_labels)
           shown == XLabelShown(axes.chart_area, x_pos)
       IN  axes' = [axes EXCEPT
                       !.i = axes.i + 1,
                       !.x_pos = Append(axes.x_pos,
                                   IF shown THEN Some(x_pos) ELSE None),
                       !.x_text = Append(axes.x_text,
                                   IF shown
                                   THEN Some(SaturatingSub(x_pos, axes.label_len \div 2))
                                   ELSE None)]
    /\ UNCHANGED <<width, height, data, op, calls, text, line, path, chart, seg,
                   anim, ats, scan, spark, app>>

\* the end of the X labels
AxesXEnd ==
    /\ axes.status = "x"
    /\ axes.i = axes.x_labels
    /\ axes' = [axes EXCEPT !.status = "done"]
    /\ UNCHANGED <<width, height, data, op, calls, text, line, path, chart, seg,
                   anim, ats, scan, spark, app>>

NextAxes == AxesBegin \/ AxesYLabel \/ AxesYEnd \/ AxesXLabel \/ AxesXEnd

SpecAxes == InitAxes /\ [][NextAxes]_vars

\* the offsets of an axis' labels from the start of the graph area: from its
\* left edge on the X axis, from its bottom edge on the Y axis
XOffsets == [i \in 1..Len(axes.x_pos) |->
               IF axes.x_pos[i] = None THEN None
               ELSE Some(axes.x_pos[i].v - axes.graph_area.x)]
YOffsets == [i \in 1..Len(axes.y_pos) |->
               IF axes.y_pos[i] = None THEN None
               ELSE Some(axes.graph_area.y + axes.graph_area.height - axes.y_pos[i].v)]

\* every one of the n labels is placed, label i at i/(n-1) * extent; one
\* label is placed without a failure
LabelsAsStated(offs, n, extent) ==
    /\ Len(offs) = n
    /\ \A i \in 1..n : offs[i] # None
    /\ n >= 2 => /\ \A i \in 1..n : offs[i].v = ((i - 1) * extent) \div (n - 1)
                 /\ offs[1].v = 0
                 /\ offs[n].v = extent
                 /\ \A i \in 1..(n - 1) : offs[i].v <= offs[i + 1].v

\* C21: once render_axes has run, every tick label of both axes is placed,
\* label i of N at offset i/(N-1) * extent from the start of the graph area:
\* the first at the edge, the last at the full extent, the offsets
\* non-decreasing, a single label without a division failure.
C21_TickLabels ==
    axes # None /\ axes.status = "done"
        => /\ LabelsAsStated(XOffsets, axes.x_labels, axes.graph_area.width)
           /\ LabelsAsStated(YOffsets, axes.y_labels, axes.graph_area.height)

\* The markers the Matrix variant is stated to light at frame f: marker i
\* (of 5) in column (i * 10) mod w, at row (f + 3 * i) mod h, f the unsigned
\* value of the frame counter.
MatrixMarkers(w, h, f) ==
    { <<(i * 10) % w, (UMod(f, h) + 3 * i) % h>> : i \in 0..4 }

\* C22: a Matrix animator with width >= 1 and height >= 1 that has been
\* updated to frame f shows exactly the markers at rows (f + offset) mod
\* height, all inside the canvas (so each marker moves down one row per
\* frame, wraps from the bottom row to row 0, and frames f and f + height
\* light the same set).
C22_MatrixMarkers ==
    anim # None =>
        \A k \in 1..2 :
            LET a == anim.a[k]
            IN  (a.animation_type = "Matrix" /\ a.width >= 1 /\ a.height >= 1
                    /\ a.status # "new")
                => /\ a.status = "ok"
                   /\ Lit(a.canvas, a.width, a.height)
                        = MatrixMarkers(a.width, a.height, a.frame_count)
                   /\ \A p \in Lit(a.canvas, a.width, a.height) :
                        p[1] \in 0..(a.width - 1) /\ p[2] \in 0..(a.height - 1)

\* C23: when render has laid the highlight over a non-empty line in an area
\* of inner width >= 1, computing it did not fail (no underflow of inner
\* width minus pos, no read past the line's end), it starts at the scanner's
\* position (clamped to the line), is at most 3 cells wide and ends within
\* the line.
C23_HighlightClamped ==
    (scan # None /\ scan.hl # None)
    => /\ scan.hl.kind = "some"
       /\ scan.hl.pos = UMin(scan.s.position, scan.hl.len - 1)
       /\ scan.hl.k <= 3
       /\ scan.hl.pos + scan.hl.k <= scan.hl.len

\* The frame `frame` of animator a, drawn on a new canvas.
FreshFrame(a, frame) ==
    Animation(CanvasNew(a.width, a.height), a.width, a.height,
              a.animation_type, frame, anim.overflow_checks)

\* C24: after any sequence of updates an animator's canvas is the one its
\* last frame gives on a new canvas (nothing lit by an earlier frame only);
\* from any such state update(Some(n)) leaves frame n, whatever the counter
\* was, and update(None) leaves the frame of the counter plus one, wrapping
\* from the largest value to 0.  (The calls are tried on the first animator:
\* the second goes through the same sequences of updates.)
C24_FromScratch ==
    anim # None =>
        /\ \A k \in 1..2 :
              LET a    == anim.a[k]
                  last == FreshFrame(a, a.frame_count)
              IN  a.status # "new" => a.canvas = last.canvas /\ a.status = last.status
        /\ LET a    == anim.a[1]
               next == AnimatorUpdate(a, None, anim.overflow_checks)
           IN  a.status # "panic" =>
                  /\ \A n \in FrameIndexes :
                        LET b == AnimatorUpdate(a, Some(n), anim.overflow_checks)
                        IN  /\ b.frame_count = n
                            /\ b.canvas = FreshFrame(a, n).canvas
                  /\ next.frame_count =
                        (IF a.frame_count = -1 THEN 0 ELSE a.frame_count + 1)
                  /\ next.canvas = FreshFrame(a, next.frame_count).canvas

\* A Matrix animator on a 3 x 3 canvas was updated more than once and shows
\* frame 2, whose markers are not those of the frames before; the other
\* animator was never updated.
C24_Witness ==
    /\ anim # None
    /\ anim.a[1].animation_type = "Matrix"
    /\ anim.a[1].width = 3 /\ anim.a[1].height = 3
    /\ anim.a[1].status = "ok" /\ anim.a[1].again
    /\ anim.a[1].frame_count = 2
    /\ Lit(anim.a[1].canvas, 3, 3) # Lit(FreshFrame(anim.a[1], 1).canvas, 3, 3)
    /\ anim.a[2].status = "new"

\* the pixels of row y of a canvas w wide
RowPixels(w, y) == { <<x, y>> : x \in 0..(w - 1) }

\* C25: a Wave animator (width >= 1, height >= 2) that has been updated
\* lights one pixel in every column, all of one row, and that row depends on
\* the frame index: some other frame index lights another row.
C25_WaveOscillates ==
    anim # None =>
        \A k \in 1..2 :
            LET a == anim.a[k]
            IN  (a.animation_type = "Wave" /\ a.status = "ok"
                    /\ a.width >= 1 /\ a.height >= 2)
                => /\ \E y \in 0..(a.height - 1) :
                        Lit(a.canvas, a.width, a.height) = RowPixels(a.width, y)
                   /\ \E n \in FrameIndexes :
                        FreshFrame(a, n).canvas # a.canvas

(***************************************************************************)
(* draw_line as a loop that is run to its end: the thread that called it   *)
(* keeps executing iterations.                                             *)
(***************************************************************************)
SpecLineRun == SpecLine /\ WF_vars(LineIter)

\* C26: draw_line terminates.  An iteration that does not leave the loop
\* moves the current point: each coordinate stays or moves by its one step,
\* towards its target and never past it.  The loop ends with the current
\* point on (x1, y1), and there are at most max(|x1 - x0|, |y1 - y0|) + 1
\* iterations, each with at most one pixel write.
C26_LineTerminates ==
    /\ [][line.kind = "loop" =>
            /\ line'.x0 \in {line.x0, line.x0 + line.sx}
            /\ line'.y0 \in {line.y0, line.y0 + line.sy}
            /\ Abs(line.x1 - line'.x0) <= Abs(line.x1 - line.x0)
            /\ Abs(line.y1 - line'.y0) <= Abs(line.y1 - line.y0)
            /\ line'.kind = "loop" => <<line'.x0, line'.y0>> # <<line.x0, line.y0>>
            /\ Cardinality(Lit(data', width, height))
                  <= Cardinality(Lit(data, width, height)) + 1
      ]_vars
    /\ [](line.kind = "done" => line.x0 = line.x1 /\ line.y0 = line.y1)
    /\ [](line.kind # "none" => Len(path) <= Max(line.dx, -line.dy) + 1)
    /\ (line.kind = "loop") ~> (line.kind = "done")

\* A line going left and down, longer across than down, has been drawn in
\* as many iterations as its longer side has points.
C26_Witness ==
    /\ line.kind = "done"
    /\ line.sx = -1 /\ line.sy = 1
    /\ line.dx = 3 /\ line.dy = -2
    /\ Len(path) = 4

(***************************************************************************)
(* App (src/src/ui/app.rs) in the loop of Tui::run (src/src/ui/tui.rs):    *)
(* the screens, the monitoring of the selected process and its two         *)
(* histories, and the analysis a worker thread hands back over a channel.  *)
(* app holds the fields of App the handlers branch on or the claims speak  *)
(* of, and beside them                                                     *)
(*   left      Tui::run has left its loop                                  *)
(*   threads   the worker threads spawned so far: the process each was     *)
(*             started for, and whether it is still running                *)
(*   chan      the message waiting in the channel whose receiver           *)
(*             llm_analysis_rx holds, if any                               *)
(*   applied   how many times each request's result was installed          *)
(* The status message, the scroll state and the process list are left out: *)
(* the list is the environment's, so Enter selects any process or none and *)
(* a lookup of the selected process finds it or not (`found`).             *)
(* tick_count is kept modulo SampleEvery, the sampling period.  The clock   *)
(* is the environment's: a tick finds the monitoring duration reached or   *)
(* not.  The readings the environment supplies alternate from one sample   *)
(* stored to the next, so the oldest and the newest sample of a full       *)
(* history differ.                                                         *)
(***************************************************************************)
HistoryLimit    == 100   \* if self.cpu_history.len() > 100
SampleEvery     == 10    \* if self.tick_count % 10 == 0
EnoughSamples   == 5     \* self.cpu_history.len() < 5
DefaultDuration == 30    \* self.start_monitoring(30)

\* the processes of the list
Pids == {1, 2}

Screens == {"Dashboard", "ProcessMonitor", "FileMonitor", "NetworkMonitor",
            "Reports", "Help"}

\* KeyCode values: 'A', 'M', 'S' and Tab are handled as 'a', 'm', 's' and
\* 't'; "x" stands for every key no handler names
Keys == {"Esc", "q", "p", "f", "n", "r", "h", "a", "m", "s", "t", "Up", "Down",
         "Enter", "x"}

\* a value of process_llm_analysis: the text of `kind` about process pid,
\* written for request req (0: for none)
Analysis(kind, pid, req) == [kind |-> kind, pid |-> pid, req |-> req]

\* process.cpu_usage and process.memory_usage, to be stored after history h
CpuReading(h) == IF h = <<>> THEN 0 ELSE 1 - h[Len(h)]
MemoryReading(h) == IF h = <<>> THEN 2 ELSE 5 - h[Len(h)]

\* App::default()
AppDefault ==
    [state |-> "Dashboard", running |-> TRUE, left |-> FALSE, tick_count |-> 0,
     selected_pid |-> None, process_monitor_tab |-> 0,
     process_llm_analysis |-> None,
     monitoring_duration |-> 0, monitoring_start_time |-> None,
     is_monitoring_active |-> FALSE,
     cpu_history |-> <<>>, memory_history |-> <<>>,
     llm_analysis_rx |-> None,
     threads |-> <<>>, chan |-> None, applied |-> <<>>]

\* A plausible slip: the history is kept where it should be emptied.
ClearHistoryKept(h) == h

\* Vec::clear
ClearHistory(h) == <<>>

\* push, then remove(0) when the length exceeds 100
HistoryPush(h, v) ==
    LET g == Append(h, v)
    IN  IF Len(g) > HistoryLimit THEN Tail(g) ELSE g

\* fn stop_monitoring
StopMonitoring(a) ==
    [a EXCEPT !.is_monitoring_active = FALSE,
              !.process_monitor_tab =
                  IF Len(a.cpu_history) >= EnoughSamples /\ @ = 0 THEN 1 ELSE @]

\* fn start_monitoring
StartMonitoring(a, duration_secs) ==
    [a EXCEPT !.monitoring_duration = duration_secs,
              !.monitoring_start_time = Some(0),
              !.is_monitoring_active = TRUE,
              !.cpu_history = ClearHistory(@),
              !.memory_history = ClearHistory(@)]

\* fn generate_demo_analysis
GenerateDemoAnalysis(a, found) ==
    IF a.selected_pid # None /\ found
    THEN [a EXCEPT !.process_llm_analysis = Analysis("demo", a.selected_pid.v, 0)]
    ELSE a

\* A plausible slip: a receiver still waiting is kept and the new one dropped.
RxAfterStartKept(rx, id) == IF rx = None THEN Some(id) ELSE rx

\* self.llm_analysis_rx = Some(rx): the receiver of the new channel replaces
\* the one held
RxAfterStart(rx, id) == Some(id)

\* fn generate_real_analysis: the loading text, a new channel, a new thread.
\* Dropping the receiver held before drops the message waiting in it.
GenerateRealAnalysis(a, found) ==
    IF a.selected_pid # None /\ found
    THEN LET a1 == IF a.is_monitoring_active THEN StopMonitoring(a) ELSE a
             id == Len(a.threads) + 1
             rx == RxAfterStart(a.llm_analysis_rx, id)
         IN  [a1 EXCEPT
                !.process_monitor_tab = 1,
                !.process_llm_analysis = Analysis("loading", a.selected_pid.v, id),
                !.llm_analysis_rx = rx,
                !.chan = IF rx = a.llm_analysis_rx THEN @ ELSE None,
                !.threads = Append(@, [pid |-> a.selected_pid.v, running |-> TRUE]),
                !.applied = Append(@, 0)]
    ELSE a

\* fn handle_dashboard_keys
HandleDashboardKeys(a, key) ==
    CASE key \in {"q", "Esc"} -> [a EXCEPT !.running = FALSE]
      [] key = "p" -> [a EXCEPT !.state = "ProcessMonitor"]
      [] key = "f" -> [a EXCEPT !.state = "FileMonitor"]
      [] key = "n" -> [a EXCEPT !.state = "NetworkMonitor"]
      [] key = "r" -> [a EXCEPT !.state = "Reports"]
      [] key = "h" -> [a EXCEPT !.state = "Help"]
      [] OTHER -> a

\* fn handle_process_monitor_keys; `under` is the process under the list's
\* cursor (None: no cursor, or one past the list's end)
HandleProcessMonitorKeys(a, key, under, found) ==
    CASE key = "Esc" -> [a EXCEPT !.state = "Dashboard"]
      [] key = "a" ->
            IF a.selected_pid = None THEN a
            ELSE IF Len(a.cpu_history) < EnoughSamples /\ ~a.is_monitoring_active THEN a
            ELSE GenerateRealAnalysis([a EXCEPT !.process_monitor_tab = 1], found)
      [] key = "m" ->
            IF a.selected_pid # None /\ ~a.is_monitoring_active
            THEN StartMonitoring(a, DefaultDuration)
            ELSE a
      [] key = "s" ->
            IF a.is_monitoring_active THEN StopMonitoring(a) ELSE a
      [] key = "t" -> [a EXCEPT !.process_monitor_tab = (@ + 1) % 2]
      [] key = "Enter" ->
            IF under = None THEN a
            ELSE [a EXCEPT !.selected_pid = under,
                           !.process_llm_analysis = None,
                           !.cpu_history = ClearHistory(@),
                           !.memory_history = ClearHistory(@)]
      [] OTHER -> a

\* fn handle_file_monitor_keys, handle_network_monitor_keys,
\* handle_reports_keys
HandleEscOnlyKeys(a, key) ==
    IF key = "Esc" THEN [a EXCEPT !.state = "Dashboard"] ELSE a

\* A plausible slip: 'q' ends the program from the help screen too.
HandleHelpKeysQuits(a, key) ==
    IF key = "q" THEN [a EXCEPT !.running = FALSE]
    ELSE IF key \in {"Esc", "h"} THEN [a EXCEPT !.state = "Dashboard"] ELSE a

\* fn handle_help_keys
HandleHelpKeys(a, key) ==
    IF key \in {"Esc", "q", "h"} THEN [a EXCEPT !.state = "Dashboard"] ELSE a

\* fn handle_key_event
HandleKeyEvent(a, key, under, found) ==
    CASE a.state = "Dashboard"      -> HandleDashboardKeys(a, key)
      [] a.state = "ProcessMonitor" -> HandleProcessMonitorKeys(a, key, under, found)
      [] a.state = "Help"           -> HandleHelpKeys(a, key)
      [] OTHER                      -> HandleEscOnlyKeys(a, key)

\* fn update_loading_indicator: the hourglass of the loading text is replaced
\* by a spinner glyph, once (the text then no longer holds the hourglass)
UpdateLoadingIndicator(analysis) ==
    IF analysis # None /\ analysis.kind = "loading"
    THEN Analysis("spinner", analysis.pid, analysis.req)
    ELSE analysis

\* fn tick: the poll of the channel.  try_recv never blocks: it fails when
\* the channel is empty, or disconnected by a thread that died.
PollAnalysis(a, found) ==
    IF a.llm_analysis_rx = None \/ a.chan = None THEN a
    ELSE LET id == a.llm_analysis_rx.v
         IN  [a EXCEPT
                !.process_llm_analysis =
                    IF a.chan.v = "Ok"
                    THEN Analysis("result", a.threads[id].pid, id)
                    ELSE IF a.selected_pid # None /\ found
                         THEN Analysis("fallback", a.selected_pid.v, id)
                         ELSE @,
                !.llm_analysis_rx = None,
                !.chan = None,
                !.applied[id] = @ + 1]

\* fn tick: the monitoring part; `reached` tells whether the clock has
\* reached the monitoring duration
TickMonitoring(a, reached, found) ==
    IF ~a.is_monitoring_active THEN a
    ELSE IF a.monitoring_start_time # None /\ a.monitoring_duration > 0 /\ reached
         THEN LET a1 == StopMonitoring(a)
              IN  IF a1.process_llm_analysis = None THEN GenerateDemoAnalysis(a1, found) ELSE a1
    ELSE IF a.tick_count % SampleEvery = 0
              /\ a.selected_pid # None /\ found
         THEN [a EXCEPT
                 !.cpu_history = HistoryPush(@, CpuReading(@)),
                 !.memory_history = HistoryPush(@, MemoryReading(@))]
    ELSE a

\* fn tick
AppTick(a, reached, found) ==
    LET a1 == [a EXCEPT !.tick_count = (@ + 1) % SampleEvery,
                        !.process_llm_analysis = UpdateLoadingIndicator(@)]
    IN  TickMonitoring(PollAnalysis(a1, found), reached, found)

\* the variables no action of the App changes
NotApp == <<width, height, data, op, calls, text, line, path, chart, seg,
            anim, ats, scan, spark, axes>>

\* the loop of Tui::run is in an iteration
LoopRuns == app.running /\ ~app.left

\* Tui::handle_events with a key event
KeyEvent(key, under) ==
    /\ \E found \in BOOLEAN : app' = HandleKeyEvent(app, key, under, found)
    /\ UNCHANGED NotApp

KeyEsc ==
    /\ LoopRuns
    /\ KeyEvent("Esc", None)

KeyQ ==
    /\ LoopRuns
    /\ KeyEvent("q", None)

\* the keys that open a screen from the dashboard
KeyScreen ==
    /\ LoopRuns
    /\ \E key \in {"p", "f", "n", "r", "h"} : KeyEvent(key, None)

\* the analysis key; an analysis is started MaxRequests times at most
KeyA ==
    /\ LoopRuns
    /\ Len(app.threads) < MaxRequests
    /\ KeyEvent("a", None)

KeyM ==
    /\ LoopRuns
    /\ KeyEvent("m", None)

KeyS ==
    /\ LoopRuns
    /\ KeyEvent("s", None)

KeyT ==
    /\ LoopRuns
    /\ KeyEvent("t", None)

\* Enter with the list's cursor on process pid
KeyEnterOn(pid) == KeyEvent("Enter", Some(pid))

KeyEnter ==
    /\ LoopRuns
    /\ \/ \E pid \in Pids : KeyEnterOn(pid)
       \/ KeyEvent("Enter", None)

KeyOther ==
    /\ LoopRuns
    /\ \E key \in {"Up", "Down", "x"} : KeyEvent(key, None)

\* the tick of one loop iteration; the iteration in which a key cleared
\* `running` may still tick before the loop tests `running` and ends
Tick ==
    /\ ~app.left
    /\ \E reached, found \in BOOLEAN :
          app' = [AppTick(app, reached, found) EXCEPT !.left = ~app.running]
    /\ UNCHANGED NotApp

\* SpecApp makes ticks up to tick_count MaxTicks
TickBounded ==
    /\ app.tick_count < MaxTicks
    /\ Tick

\* the loop tests `running` and ends
LoopExit ==
    /\ ~app.running /\ ~app.left
    /\ app' = [app EXCEPT !.left = TRUE]
    /\ UNCHANGED NotApp

\* a worker thread ends: it sends Ok or Err into its channel, which fails
\* silently when the receiver was dropped, or dies before it sends
Worker ==
    /\ ~app.left
    /\ \E id \in 1..Len(app.threads) :
          /\ app.threads[id].running
          /\ \E outcome \in {"Ok", "Err", "died"} :
                app' = [app EXCEPT
                          !.threads[id].running = FALSE,
                          !.chan = IF outcome # "died" /\ app.llm_analysis_rx = Some(id)
                                   THEN Some(outcome) ELSE @]
    /\ UNCHANGED NotApp

InitApp ==
    /\ width = 0 /\ height = 0
    /\ data = CanvasNew(0, 0)
    /\ op = [kind |-> "new", w |-> 0, h |-> 0]
    /\ calls = 0
    /\ text = <<>>
    /\ line = IdleLine
    /\ path = <<>>
    /\ chart = IdleChart
    /\ seg = None
    /\ anim = None /\ ats = None /\ scan = None /\ spark = None
    /\ axes = None
    /\ app = AppDefault

NextApp ==
    \/ KeyEsc \/ KeyQ \/ KeyScreen \/ KeyA \/ KeyM \/ KeyS \/ KeyT \/ KeyEnter
    \/ KeyOther \/ TickBounded \/ LoopExit \/ Worker

SpecApp == InitApp /\ [][NextApp]_vars

\* a tick of this step installed the result a worker thread sent
ResultInstalled ==
    /\ app'.applied # app.applied
    /\ app'.process_llm_analysis # None
    /\ app'.process_llm_analysis.kind = "result"

\* C27: the analysis a tick installs from a received result is about the
\* process selected at that moment; a result requested for one process is
\* never installed after Enter has selected another.
C27_ResultOfSelected ==
    [][ResultInstalled =>
          app'.selected_pid = Some(app'.process_llm_analysis.pid)]_vars

\* this step is a tick (only tick changes tick_count)
IsTick == app'.tick_count # app.tick_count

\* try_recv would fail: no receiver is held, or its channel is empty
NoResultAvailable == app.llm_analysis_rx = None \/ app.chan = None

\* every request's result was installed once at most
AppliedOnceAtMost == \A id \in 1..Len(app.applied) : app.applied[id] <= 1

\* a result is installed only for the latest request, from the receiver
\* held, which is then given up
OnlyLatestApplied ==
    \A id \in 1..Len(app.applied) :
        (Len(app'.applied) = Len(app.applied) /\ app'.applied[id] # app.applied[id])
        => /\ id = Len(app.threads)
           /\ app.llm_analysis_rx = Some(id)
           /\ app'.llm_analysis_rx = None

\* a new request replaces the receiver held by its own, with an empty channel
ReceiverReplaced ==
    Len(app'.threads) > Len(app.threads)
    => /\ app'.llm_analysis_rx = Some(Len(app'.threads))
       /\ app'.chan = None

\* a tick that finds no result leaves the analysis text and the receiver alone
TickWithoutResultIdle ==
    (IsTick /\ NoResultAvailable)
    => /\ app'.process_llm_analysis = app.process_llm_analysis
       /\ app'.llm_analysis_rx = app.llm_analysis_rx
       /\ app'.applied = app.applied

\* a tick that finds no result installs none and keeps the receiver; the text
\* changes only by the spinner of the loading text, or to the demo report
\* when the monitoring duration is reached and there is no text
TickWithoutResultInstallsNone ==
    (IsTick /\ NoResultAvailable)
    => /\ app'.llm_analysis_rx = app.llm_analysis_rx
       /\ app'.applied = app.applied
       /\ \/ app'.process_llm_analysis = UpdateLoadingIndicator(app.process_llm_analysis)
          \/ /\ app.process_llm_analysis = None
             /\ app.is_monitoring_active /\ ~app'.is_monitoring_active
             /\ app'.process_llm_analysis = Analysis("demo", app.selected_pid.v, 0)

\* C28 as stated: one result at most is applied per request and only the
\* latest request counts (a new request replaces the receiver); a tick that
\* finds no result leaves the analysis state unchanged; a received result
\* sets llm_analysis_rx to None and is never applied twice.
C28_AsStated ==
    /\ []AppliedOnceAtMost
    /\ [][OnlyLatestApplied /\ ReceiverReplaced /\ TickWithoutResultIdle]_vars

\* C28, amended: as stated, except that a tick that finds no result still
\* animates the loading text and still writes the demo report at the end of
\* a monitoring; it installs no result and keeps the receiver.
C28_OneResultPerRequest ==
    /\ []AppliedOnceAtMost
    /\ [][OnlyLatestApplied /\ ReceiverReplaced /\ TickWithoutResultInstallsNone]_vars

\* the second request superseded the first, whose thread has ended, and only
\* the second request's result was installed
C28_Witness ==
    /\ app # None
    /\ Len(app.threads) = 2
    /\ ~app.threads[1].running
    /\ app.applied = <<0, 1>>
    /\ app.llm_analysis_rx = None
    /\ app.process_llm_analysis # None
    /\ app.process_llm_analysis.kind = "result"
    /\ app.process_llm_analysis.req = 2

\* Esc on a screen other than the dashboard leads to the dashboard and leaves
\* `running` alone
EscLeadsBack ==
    (KeyEsc /\ app.state # "Dashboard")
    => (app'.state = "Dashboard" /\ app'.running = app.running)

\* a screen other than the dashboard is entered from the dashboard only
EnteredFromDashboard ==
    (app'.state # app.state /\ app'.state # "Dashboard") => app.state = "Dashboard"

\* `running` is cleared by 'q' or Esc on the dashboard only
ClearedOnDashboard ==
    (app.running /\ ~app'.running) => ((KeyEsc \/ KeyQ) /\ app.state = "Dashboard")

\* `running` is never set again
NeverSetAgain == ~app.running => ~app'.running

\* C30: Esc on every screen but the dashboard sets the state to Dashboard and
\* leaves running unchanged; every other screen is entered from the dashboard
\* only; running becomes false only by 'q' or Esc on the dashboard, and no key
\* event or tick sets it back to true.
C30_Navigation ==
    [][EscLeadsBack /\ EnteredFromDashboard /\ ClearedOnDashboard /\ NeverSetAgain]_vars

\* a process was selected on the process monitor, Esc led back to the
\* dashboard and a key there ended the program; the last tick has run
C30_Witness ==
    /\ app # None
    /\ app.state = "Dashboard"
    /\ app.selected_pid # None
    /\ ~app.running
    /\ app.left
    /\ app.tick_count > 0

(***************************************************************************)
(* The histories at their full length.  SpecHistory starts on the process  *)
(* monitor and takes the steps that touch cpu_history and memory_history:  *)
(* ticks without end, 'm', 's' and Enter.  The sequences of readings are   *)
(* determined by their length and their oldest sample, so the histories    *)
(* reach HistoryLimit in a small state space.                              *)
(***************************************************************************)
InitHistory ==
    /\ width = 0 /\ height = 0
    /\ data = CanvasNew(0, 0)
    /\ op = [kind |-> "new", w |-> 0, h |-> 0]
    /\ calls = 0
    /\ text = <<>>
    /\ line = IdleLine
    /\ path = <<>>
    /\ chart = IdleChart
    /\ seg = None
    /\ anim = None /\ ats = None /\ scan = None /\ spark = None
    /\ axes = None
    /\ app = [AppDefault EXCEPT !.state = "ProcessMonitor"]

NextHistory == Tick \/ KeyM \/ KeyS \/ KeyEnter

SpecHistory == InitHistory /\ [][NextHistory]_vars

\* the two histories have one length, HistoryLimit at most
HistoriesAligned ==
    /\ Len(app.cpu_history) = Len(app.memory_history)
    /\ Len(app.cpu_history) <= HistoryLimit

\* history h became g by storing one sample
Stored(h, g) == g # h /\ g # <<>>

\* storing into a full history removes its oldest sample
OldestRemoved(h, g) ==
    (Len(h) = HistoryLimit /\ Stored(h, g))
    => (Len(g) = HistoryLimit /\ SubSeq(g, 1, HistoryLimit - 1) = Tail(h))

\* storing into a history that is not full appends one sample
OneAppended(h, g) ==
    (Len(h) < HistoryLimit /\ Stored(h, g))
    => (Len(g) = Len(h) + 1 /\ SubSeq(g, 1, Len(h)) = h)

\* what a step does to the histories
HistoryStep ==
    /\ OldestRemoved(app.cpu_history, app'.cpu_history)
    /\ OldestRemoved(app.memory_history, app'.memory_history)
    /\ OneAppended(app.cpu_history, app'.cpu_history)
    /\ OneAppended(app.memory_history, app'.memory_history)
    /\ (Stored(app.cpu_history, app'.cpu_history)
          \/ Stored(app.memory_history, app'.memory_history))
       => (IsTick /\ app.is_monitoring_active)
    /\ ((~app.is_monitoring_active /\ app'.is_monitoring_active)
          \/ \E pid \in Pids : KeyEnterOn(pid))
       => (app'.cpu_history = <<>> /\ app'.memory_history = <<>>)

\* C29: after any ticks and key events cpu_history and memory_history have
\* the same length, 100 at most (a sample that would make it 101 removes the
\* oldest); samples are appended only while monitoring is active, and both
\* histories are emptied together when monitoring starts or a process is
\* selected.
C29_Histories == []HistoriesAligned /\ [][HistoryStep]_vars

\* both histories are full and an odd number of their oldest samples has
\* been removed, while the monitoring goes on
C29_Witness ==
    /\ app # None
    /\ app.is_monitoring_active
    /\ Len(app.cpu_history) = HistoryLimit
    /\ Len(app.memory_history) = HistoryLimit
    /\ app.cpu_history[1] = 1
    /\ app.cpu_history[HistoryLimit] = 0
    /\ app.memory_history[1] = 3

====
